---- MODULE Spec2Model ----
(***************************************************************************)
(* Plan-tree state machine of the agent: src/src/agent/plan.py             *)
(* (update_plan, check_dependencies, apply_plan_updates) and               *)
(* src/src/agent/task.py (execute_task).                                   *)
(*                                                                         *)
(* agent.plan_tree is an XML string that every operation parses with       *)
(* ET.fromstring, edits and stores back with ET.tostring.  The model       *)
(* holds None or Some(document), the document being a sequence of task     *)
(* elements, each with the index of its parent element (0 is the <plan>    *)
(* root element, -1 a detached element) and its attribute map.            *)
(* Serialize is what ET.tostring followed by the next ET.fromstring        *)
(* yields: the elements reachable from the root, in document order.        *)
(*                                                                         *)
(* Strings the code takes apart are sequences of lexemes: a depends_on     *)
(* value is a sequence over task ids, "," and " "; a progress value is a   *)
(* sequence of characters.                                                 *)
(*                                                                         *)
(* Reading of the source: task.py holds the body of execute_task at lines  *)
(* 46-268, textually after the short lookup at lines 26-45 and followed    *)
(* by a duplicated tail (lines 273-295) that keeps the file from           *)
(* compiling; the model follows the body at lines 46-268 together with     *)
(* the guard of lines 23-24.  plan.py line 167 is read as                  *)
(* "if not agent.plan_tree".  Results are modelled by the dictionary       *)
(* handed to format_xml_response.                                          *)
(*                                                                         *)
(* The second half models src/src/interface/actions.py (execute_action,    *)
(* execute_file_edit, execute_shell_command, update_dependent_tasks) and   *)
(* src/src/utils/shell.py (execute_command) over a small file system, the  *)
(* answers of the user and the outputs of the launched processes; these    *)
(* operations have specifications of their own (SpecDependents,            *)
(* SpecActions, SpecShell) that leave the plan variables alone.            *)
(*                                                                         *)
(* The third part models is_command_safe of shell.py (SpecSafe), the XML   *)
(* helpers of src/src/utils/xml_tools.py and Agent.extract_xml_from_       *)
(* response of src/src/agent/core.py over documents held as sequences of   *)
(* characters (SpecXml), stream_reasoning of core.py (SpecStream) and the  *)
(* continuation of the chat loop of src/src/interface/chat.py (SpecChat).  *)
(***************************************************************************)
EXTENDS Integers, Sequences, FiniteSets, TLC

VARIABLES plan_tree, pc, root, task_element, task_id, response, result,
          trace, entry, applied, changes, lastOp, ops,
          tree, tree0, fs, fs0, launched, ret, console, context, act, acts,
          stream, session

planVars == <<plan_tree, pc, root, task_element, task_id, response, result,
              trace, entry, applied, changes, lastOp, ops>>

actVars == <<tree, tree0, fs, fs0, launched, ret, console, context, act, acts>>

chatVars == <<stream, session>>

vars == <<plan_tree, pc, root, task_element, task_id, response, result,
          trace, entry, applied, changes, lastOp, ops,
          tree, tree0, fs, fs0, launched, ret, console, context, act, acts,
          stream, session>>

(* ---------------------------------------------------------------------- *)
(* Bounds                                                                  *)
(* ---------------------------------------------------------------------- *)
MaxOps == 2

MaxNodes == 5

(* ---------------------------------------------------------------------- *)
(* Optional values (Python None / a value)                                 *)
(* ---------------------------------------------------------------------- *)
None == <<>>

Some(v) == <<v>>

(* ---------------------------------------------------------------------- *)
(* Attribute maps: elem.get / elem.set                                     *)
(* ---------------------------------------------------------------------- *)
Get(attrs, k, default) == IF k \in DOMAIN attrs THEN attrs[k] ELSE default

Set(attrs, k, v) == [x \in (DOMAIN attrs) \cup {k} |-> IF x = k THEN v ELSE attrs[x]]

(* ---------------------------------------------------------------------- *)
(* Document order, find, findall, ET.tostring                              *)
(* ---------------------------------------------------------------------- *)
Idx(t) == [i \in 1..Len(t) |-> i]

ChildSeq(t, p) == SelectSeq(Idx(t), LAMBDA i: t[i].parent = p)

RECURSIVE PreList(_, _)
PreList(t, cs) ==
  IF cs = <<>> THEN <<>>
  ELSE <<Head(cs)>> \o PreList(t, ChildSeq(t, Head(cs))) \o PreList(t, Tail(cs))

DocOrder(t) == PreList(t, ChildSeq(t, 0))

FindAll(t, id) == SelectSeq(DocOrder(t), LAMBDA i: Get(t[i].attrs, "id", "") = id)

Find(t, id) == IF FindAll(t, id) = <<>> THEN 0 ELSE Head(FindAll(t, id))

PosIn(s, x) == CHOOSE k \in 1..Len(s) : s[k] = x

Serialize(t) ==
  LET ord == DocOrder(t)
  IN [k \in 1..Len(ord) |->
        [parent |-> IF t[ord[k]].parent = 0 THEN 0 ELSE PosIn(ord, t[ord[k]].parent),
         attrs  |-> t[ord[k]].attrs]]

(* ---------------------------------------------------------------------- *)
(* str.split(","), str.strip(), str.isdigit(), int()                       *)
(* ---------------------------------------------------------------------- *)
RECURSIVE SplitComma(_)
SplitComma(s) ==
  IF \A k \in 1..Len(s) : s[k] # "," THEN <<s>>
  ELSE LET c == CHOOSE k \in 1..Len(s) : s[k] = "," /\ \A j \in 1..(k-1) : s[j] # ","
       IN <<SubSeq(s, 1, c - 1)>> \o SplitComma(SubSeq(s, c + 1, Len(s)))

RECURSIVE Strip(_)
Strip(s) ==
  IF s = <<>> THEN s
  ELSE IF Head(s) = " " THEN Strip(Tail(s))
  ELSE IF s[Len(s)] = " " THEN Strip(SubSeq(s, 1, Len(s) - 1))
  ELSE s

AsciiDigits == <<"0", "1", "2", "3", "4", "5", "6", "7", "8", "9">>

SuperscriptDigits == {"²"}

IsDigitChar(c) == (\E d \in 1..10 : AsciiDigits[d] = c) \/ c \in SuperscriptDigits

IsDigit(s) == s # <<>> /\ \A k \in 1..Len(s) : IsDigitChar(s[k])

IntRaises(s) == \E k \in 1..Len(s) : s[k] \in SuperscriptDigits

DigitVal(c) == (CHOOSE d \in 1..10 : AsciiDigits[d] = c) - 1

RECURSIVE IntOf(_)
IntOf(s) == IF s = <<>> THEN 0 ELSE 10 * IntOf(SubSeq(s, 1, Len(s) - 1)) + DigitVal(s[Len(s)])

(* ---------------------------------------------------------------------- *)
(* check_dependencies (plan.py 111-157)                                    *)
(* ---------------------------------------------------------------------- *)
FindField(t, f) == IF Len(f) = 1 THEN Find(t, f[1]) ELSE 0

RECURSIVE StripAll(_)
StripAll(fields) ==
  IF fields = <<>> THEN <<>> ELSE <<Strip(Head(fields))>> \o StripAll(Tail(fields))

DependencyIds(depends_on) == SelectSeq(StripAll(SplitComma(depends_on)), LAMBDA f: f # <<>>)

(* mutant: the loop returns after the first dependency *)
IncompleteDeps_FirstOnly(t, deps) ==
  IF deps = <<>> THEN <<>>
  ELSE LET d == Head(deps)
           e == FindField(t, d)
       IN IF e = 0 THEN <<[dep |-> d, problem |-> "not found", status |-> ""]>>
          ELSE IF Get(t[e].attrs, "status", "") # "completed"
               THEN <<[dep |-> d, problem |-> "is not completed",
                       status |-> Get(t[e].attrs, "status", "")]>>
               ELSE <<>>

(* mutant: a completed dependency also needs its own dependencies completed *)
RECURSIVE IncompleteDeps_Transitive(_, _)
IncompleteDeps_Transitive(t, deps) ==
  IF deps = <<>> THEN <<>>
  ELSE LET d == Head(deps)
           e == FindField(t, d)
           rest == IncompleteDeps_Transitive(t, Tail(deps))
           own == IF e = 0 THEN <<>> ELSE DependencyIds(Get(t[e].attrs, "depends_on", <<>>))
           Done(f) == FindField(t, f) # 0
                        /\ Get(t[FindField(t, f)].attrs, "status", "") = "completed"
       IN IF e = 0 THEN <<[dep |-> d, problem |-> "not found", status |-> ""]>> \o rest
          ELSE IF Get(t[e].attrs, "status", "") # "completed"
                    \/ \E k \in 1..Len(own) : ~Done(own[k])
               THEN <<[dep |-> d, problem |-> "is not completed",
                       status |-> Get(t[e].attrs, "status", "")]>> \o rest
               ELSE rest

RECURSIVE IncompleteDeps(_, _)
IncompleteDeps(t, deps) ==
  IF deps = <<>> THEN <<>>
  ELSE LET d == Head(deps)
           e == FindField(t, d)
           rest == IncompleteDeps(t, Tail(deps))
       IN IF e = 0 THEN <<[dep |-> d, problem |-> "not found", status |-> ""]>> \o rest
          ELSE IF Get(t[e].attrs, "status", "") # "completed"
               THEN <<[dep |-> d, problem |-> "is not completed",
                       status |-> Get(t[e].attrs, "status", "")]>> \o rest
               ELSE rest

(* mutant: the result is reported as met whatever the problem list holds *)
check_dependencies_AlwaysMet(pt, id) ==
  IF pt = None THEN [met |-> FALSE, missing |-> <<[dep |-> <<>>, problem |-> "No plan exists", status |-> ""]>>]
  ELSE IF Find(pt[1], id) = 0
  THEN [met |-> FALSE, missing |-> <<[dep |-> <<id>>, problem |-> "Task not found", status |-> ""]>>]
  ELSE [met |-> TRUE, missing |-> <<>>]

check_dependencies(pt, id) ==
  IF pt = None THEN [met |-> FALSE, missing |-> <<[dep |-> <<>>, problem |-> "No plan exists", status |-> ""]>>]
  ELSE LET t == pt[1]
           e == Find(t, id)
       IN IF e = 0
          THEN [met |-> FALSE, missing |-> <<[dep |-> <<id>>, problem |-> "Task not found", status |-> ""]>>]
          ELSE LET depends_on == Get(t[e].attrs, "depends_on", <<>>)
               IN IF depends_on = <<>> THEN [met |-> TRUE, missing |-> <<>>]
                  ELSE LET inc == IncompleteDeps(t, DependencyIds(depends_on))
                       IN [met |-> (Len(inc) = 0), missing |-> inc]

(* ---------------------------------------------------------------------- *)
(* update_plan (plan.py 66-109)                                            *)
(* ---------------------------------------------------------------------- *)
NotesGiven(notes) == notes # None /\ notes[1] # ""

ProgressGiven(progress) == progress # None /\ progress[1] # <<>>

ProgressAccepted(progress) ==
  ProgressGiven(progress) /\ IsDigit(progress[1]) /\ 0 <= IntOf(progress[1]) /\ IntOf(progress[1]) <= 100

(* mutant: the notes are appended to the notes the task already has *)
UpdateElem_AppendNotes(attrs, new_status, notes, progress) ==
  LET a1 == Set(attrs, "status", new_status)
      a2 == IF NotesGiven(notes) THEN Set(a1, "notes", Get(attrs, "notes", "") \o notes[1]) ELSE a1
  IN IF ProgressAccepted(progress) THEN Set(a2, "progress", progress[1]) ELSE a2

UpdateElem(attrs, new_status, notes, progress) ==
  LET a1 == Set(attrs, "status", new_status)
      a2 == IF NotesGiven(notes) THEN Set(a1, "notes", notes[1]) ELSE a1
  IN IF ProgressAccepted(progress) THEN Set(a2, "progress", progress[1]) ELSE a2

Result(keys, msg) == [keys |-> keys, message |-> msg, missing |-> <<>>]

(* mutant: the "not task_found" test is missing, the call reports an update *)
update_plan_NoNotFound(pt, id, new_status, notes, progress) ==
  IF pt = None THEN [plan |-> pt, result |-> Result({"error"}, "No plan exists")]
  ELSE LET t == pt[1]
           hits == FindAll(t, id)
           IsHit(i) == \E k \in 1..Len(hits) : hits[k] = i
       IN IF hits # <<>> /\ ProgressGiven(progress) /\ IsDigit(progress[1]) /\ IntRaises(progress[1])
          THEN [plan |-> pt, result |-> Result({"error"}, "Error updating plan")]
          ELSE [plan |-> Some(Serialize([i \in 1..Len(t) |->
                            IF IsHit(i)
                            THEN [t[i] EXCEPT !.attrs = UpdateElem(t[i].attrs, new_status, notes, progress)]
                            ELSE t[i]])),
                result |-> Result({"plan", "status"}, "Updated task")]

(* mutant: root.find instead of root.findall, only the first match is updated *)
update_plan_FirstOnly(pt, id, new_status, notes, progress) ==
  IF pt = None THEN [plan |-> pt, result |-> Result({"error"}, "No plan exists")]
  ELSE LET t == pt[1]
           hit == Find(t, id)
       IN IF hit # 0 /\ ProgressGiven(progress) /\ IsDigit(progress[1]) /\ IntRaises(progress[1])
          THEN [plan |-> pt, result |-> Result({"error"}, "Error updating plan")]
          ELSE IF hit = 0
          THEN [plan |-> pt, result |-> Result({"error"}, "Task not found")]
          ELSE [plan |-> Some(Serialize([t EXCEPT ![hit].attrs =
                                           UpdateElem(@, new_status, notes, progress)])),
                result |-> Result({"plan", "status"}, "Updated task")]

update_plan(pt, id, new_status, notes, progress) ==
  IF pt = None THEN [plan |-> pt, result |-> Result({"error"}, "No plan exists")]
  ELSE LET t == pt[1]
           hits == FindAll(t, id)
           IsHit(i) == \E k \in 1..Len(hits) : hits[k] = i
       IN IF hits # <<>> /\ ProgressGiven(progress) /\ IsDigit(progress[1]) /\ IntRaises(progress[1])
          THEN [plan |-> pt, result |-> Result({"error"}, "Error updating plan")]
          ELSE IF hits = <<>>
          THEN [plan |-> pt, result |-> Result({"error"}, "Task not found")]
          ELSE [plan |-> Some(Serialize([i \in 1..Len(t) |->
                            IF IsHit(i)
                            THEN [t[i] EXCEPT !.attrs = UpdateElem(t[i].attrs, new_status, notes, progress)]
                            ELSE t[i]])),
                result |-> Result({"plan", "status"}, "Updated task")]

(* ---------------------------------------------------------------------- *)
(* apply_plan_updates (plan.py 159-242)                                    *)
(* A patch document is [wellformed, directives]; a directive is            *)
(* [tag, attrs].  The working state is [t, log].                           *)
(* ---------------------------------------------------------------------- *)
Without(attrs, k) == [x \in (DOMAIN attrs) \ {k} |-> attrs[x]]

Overwrite(attrs, new) ==
  [x \in (DOMAIN attrs) \cup ((DOMAIN new) \ {"id"}) |->
     IF x \in (DOMAIN new) \ {"id"} THEN new[x] ELSE attrs[x]]

(* mutant: a task whose parent is not found is appended under the plan element *)
AddTask_UnderPlan(w, add_task) ==
  LET parent == Find(w.t, Get(add_task.attrs, "parent_id", "None"))
      new_task == Without(add_task.attrs, "parent_id")
  IN [t   |-> Append(w.t, [parent |-> parent, attrs |-> new_task]),
      log |-> Append(w.log, [change |-> "Added new task", id |-> Get(new_task, "id", "None")])]

AddTask(w, add_task) ==
  LET parent == Find(w.t, Get(add_task.attrs, "parent_id", "None"))
      new_task == Without(add_task.attrs, "parent_id")
  IN IF parent # 0
     THEN [t   |-> Append(w.t, [parent |-> parent, attrs |-> new_task]),
           log |-> Append(w.log, [change |-> "Added new task", id |-> Get(new_task, "id", "None")])]
     ELSE w

ModifyTask(w, modify_task) ==
  LET id == Get(modify_task.attrs, "id", "None")
      task == Find(w.t, id)
  IN IF task # 0
     THEN LET old_desc == Get(w.t[task].attrs, "description", "")
              na == Overwrite(w.t[task].attrs, modify_task.attrs)
          IN [t   |-> [w.t EXCEPT ![task].attrs = na],
              log |-> Append(w.log,
                        [change |-> IF old_desc # Get(na, "description", "")
                                    THEN "Modified task" ELSE "Updated attributes for task",
                         id |-> id])]
     ELSE w

RECURSIVE RemoveScan(_, _, _)
RemoveScan(w, parents, id) ==
  IF parents = <<>> THEN w
  ELSE LET hit == SelectSeq(ChildSeq(w.t, Head(parents)),
                            LAMBDA c: Get(w.t[c].attrs, "id", "None") = id)
       IN IF hit # <<>>
          THEN RemoveScan([t   |-> [w.t EXCEPT ![Head(hit)].parent = -1],
                           log |-> Append(w.log, [change |-> "Removed task", id |-> id])],
                          Tail(parents), id)
          ELSE RemoveScan(w, Tail(parents), id)

RemoveTask(w, remove_task) ==
  LET id == Get(remove_task.attrs, "id", "None")
  IN IF Find(w.t, id) # 0 THEN RemoveScan(w, DocOrder(w.t), id) ELSE w

RECURSIVE ProcessAdds(_, _)
ProcessAdds(w, ds) ==
  IF ds = <<>> THEN w ELSE ProcessAdds(AddTask(w, Head(ds)), Tail(ds))

RECURSIVE ProcessModifies(_, _)
ProcessModifies(w, ds) ==
  IF ds = <<>> THEN w ELSE ProcessModifies(ModifyTask(w, Head(ds)), Tail(ds))

RECURSIVE ProcessRemoves(_, _)
ProcessRemoves(w, ds) ==
  IF ds = <<>> THEN w ELSE ProcessRemoves(RemoveTask(w, Head(ds)), Tail(ds))

WithTag(patch, tag) == SelectSeq(patch.directives, LAMBDA d: d.tag = tag)

(* mutant: the directives are processed one by one in document order *)
RECURSIVE ProcessInDocumentOrder(_, _)
ProcessInDocumentOrder(w, ds) ==
  IF ds = <<>> THEN w
  ELSE ProcessInDocumentOrder(
         CASE Head(ds).tag = "add_task"    -> AddTask(w, Head(ds))
           [] Head(ds).tag = "modify_task" -> ModifyTask(w, Head(ds))
           [] Head(ds).tag = "remove_task" -> RemoveTask(w, Head(ds))
           [] OTHER                        -> w,
         Tail(ds))

apply_plan_updates_InDocumentOrder(pt, patch) ==
  IF pt = None THEN [plan |-> pt, changes |-> <<>>]
  ELSE IF ~patch.wellformed THEN [plan |-> pt, changes |-> <<>>]
  ELSE LET w == ProcessInDocumentOrder([t |-> pt[1], log |-> <<>>], patch.directives)
       IN [plan |-> Some(Serialize(w.t)), changes |-> w.log]

apply_plan_updates(pt, patch) ==
  IF pt = None THEN [plan |-> pt, changes |-> <<>>]
  ELSE IF ~patch.wellformed THEN [plan |-> pt, changes |-> <<>>]
  ELSE LET w0 == [t |-> pt[1], log |-> <<>>]
           w1 == ProcessAdds(w0, WithTag(patch, "add_task"))
           w2 == ProcessModifies(w1, WithTag(patch, "modify_task"))
           w3 == ProcessRemoves(w2, WithTag(patch, "remove_task"))
       IN [plan |-> Some(Serialize(w3.t)), changes |-> w3.log]

(* ---------------------------------------------------------------------- *)
(* Plans the session starts from, and the inputs of the operations         *)
(* ---------------------------------------------------------------------- *)
Task(parent, id, desc, status, deps, progress) ==
  [parent |-> parent,
   attrs  |-> [id |-> id, description |-> desc, status |-> status,
               depends_on |-> deps, progress |-> progress]]

RootTask == [parent |-> 0, attrs |-> [id |-> "root", description |-> "Root"]]

PlanScenario ==
  << RootTask,
     Task(1, "t1", "A", "pending", <<>>, <<"0">>),
     Task(1, "t2", "B", "pending", <<"t1">>, <<"0">>) >>

PlanDeep ==
  << RootTask,
     Task(1, "t1", "A", "completed", <<"tx">>, <<"1", "0", "0">>),
     Task(2, "t3", "C", "failed", <<"t1", ",">>, <<"0">>),
     Task(1, "t2", "B", "pending", <<"t1", ",", " ", "t3">>, <<"0">>) >>

PlanDup ==
  << RootTask,
     Task(1, "t1", "A", "pending", <<" ">>, <<"0">>),
     Task(1, "t2", "B", "completed", <<"tx">>, <<"1", "0", "0">>),
     Task(3, "t1", "A2", "completed", <<>>, <<"1", "0", "0">>),
     Task(1, "t3", "C", "failed", <<" ", "t1", " ", ",", "t2">>, <<"0">>) >>

PlanCycle ==
  << RootTask,
     Task(1, "t1", "A", "completed", <<"t2">>, <<"1", "0", "0">>),
     Task(1, "t2", "B", "pending", <<"t1">>, <<"0">>),
     Task(1, "t3", "C", "pending", <<"t3">>, <<"0">>) >>

InitPlans == {None, Some(PlanScenario), Some(PlanDeep), Some(PlanDup), Some(PlanCycle)}

CallIds == {"t1", "t2", "t3", "tx"}

NewStatuses == {"pending", "in-progress", "completed", "failed"}

NotesInputs == {None, Some(""), Some("n")}

ProgressInputs ==
  {None, Some(<<>>), Some(<<"5", "0">>), Some(<<"1", "5", "0">>), Some(<<"-", "5">>),
   Some(<<"a", "b", "c">>), Some(<<"²">>)}

Directive(tag, attrs) == [tag |-> tag, attrs |-> attrs]

Patch(ds) == [wellformed |-> TRUE, directives |-> ds]

PatchAdd ==
  Patch(<< Directive("add_task", [parent_id |-> "t1", id |-> "t4", description |-> "N",
                                   status |-> "pending"]) >>)

PatchModify ==
  Patch(<< Directive("modify_task", [id |-> "t1", status |-> "completed",
                                      progress |-> <<"1", "0", "0">>]) >>)

PatchRemove == Patch(<< Directive("remove_task", [id |-> "t3"]) >>)

PatchMixed ==
  Patch(<< Directive("remove_task", [id |-> "t4"]),
           Directive("modify_task", [id |-> "t4", description |-> "M"]),
           Directive("add_task", [parent_id |-> "tx", id |-> "t5", description |-> "N"]),
           Directive("add_task", [parent_id |-> "t2", id |-> "t4", description |-> "N"]) >>)

PatchOrphan ==
  Patch(<< Directive("add_task", [parent_id |-> "tx", id |-> "t6", description |-> "O"]),
           Directive("add_task", [id |-> "t7", description |-> "P"]) >>)

PatchRemoveTop == Patch(<< Directive("remove_task", [id |-> "root"]) >>)

PatchMalformed == [wellformed |-> FALSE, directives |-> <<>>]

Patches ==
  {PatchAdd, PatchModify, PatchRemove, PatchMixed, PatchOrphan, PatchRemoveTop, PatchMalformed}

ResponsePatches == {PatchAdd, PatchModify, PatchRemove}

Responses == [actions : BOOLEAN, plan_update : {None} \cup {Some(p) : p \in ResponsePatches}]

UpdateCalls ==
  [id : CallIds, new_status : NewStatuses, notes : {None}, progress : {None}]
    \cup [id : {"t1"}, new_status : {"in-progress"}, notes : NotesInputs, progress : ProgressInputs]
    \cup [id : {"tx"}, new_status : {"failed"}, notes : {Some("n")},
          progress : {Some(<<"5", "0">>), Some(<<"²">>)}]

NoCall ==
  [op |-> "none", id |-> "", new_status |-> "", notes |-> None, progress |-> None,
   patch |-> None, again |-> FALSE]

Call(op, id) == [NoCall EXCEPT !.op = op, !.id = id]

(* The call c, marked "again" when the call before it was the same call *)
After(last, c) == [c EXCEPT !.again = ([last EXCEPT !.again = FALSE] = c)]

Fits(pt, patch) ==
  IF pt = None THEN TRUE ELSE Len(pt[1]) + Len(WithTag(patch, "add_task")) <= MaxNodes

(* ---------------------------------------------------------------------- *)
(* State machine                                                           *)
(* ---------------------------------------------------------------------- *)
(* The agent as constructed (core.py), holding one of the plans *)
PlanStart(plans) ==
  /\ plan_tree \in plans
  /\ pc = "idle"
  /\ root = <<>>
  /\ task_element = 0
  /\ task_id = ""
  /\ response = None
  /\ result = Result({}, "")
  /\ trace = <<>>
  /\ entry = None
  /\ applied = None
  /\ changes = <<>>
  /\ lastOp = NoCall
  /\ ops = 0

(* Nothing of interface/actions.py has been called *)
NoAction ==
  [op |-> "none", arg |-> <<>>, confirm |-> "", create_file |-> "", auto_run |-> FALSE,
   run |-> [stdout |-> <<>>, stderr |-> "", returncode |-> 0], launched0 |-> 0]

NoFs == [files |-> <<>>, dirs |-> {}, exec |-> {}]

ActionsIdle ==
  /\ tree = <<>>
  /\ tree0 = <<>>
  /\ fs = NoFs
  /\ fs0 = NoFs
  /\ launched = <<>>
  /\ ret = None
  /\ console = <<>>
  /\ context = None
  /\ act = NoAction
  /\ acts = 0

(* No model call is streaming and no chat response is being processed *)
NoStream == [pc |-> "idle"]

NoSession == [pc |-> "idle"]

ChatIdle ==
  /\ stream = NoStream
  /\ session = NoSession

Init == PlanStart(InitPlans) /\ ActionsIdle /\ ChatIdle

(* update_plan(agent, task_id, new_status, notes, progress) *)
UpdatePlan(id, new_status, notes, progress) ==
  /\ pc = "idle"
  /\ ops < MaxOps
  /\ LET r == update_plan(plan_tree, id, new_status, notes, progress)
     IN /\ plan_tree' = r.plan
        /\ result' = r.result
  /\ entry' = plan_tree
  /\ lastOp' = After(lastOp, [Call("update_plan", id) EXCEPT !.new_status = new_status,
                                   !.notes = notes, !.progress = progress])
  /\ ops' = ops + 1
  /\ UNCHANGED <<pc, root, task_element, task_id, response, trace, applied, changes>>
  /\ UNCHANGED actVars
  /\ UNCHANGED chatVars

(* apply_plan_updates(agent, plan_update_xml) called on its own *)
ApplyPlanUpdates(patch) ==
  /\ pc = "idle"
  /\ ops < MaxOps
  /\ Fits(plan_tree, patch)
  /\ LET r == apply_plan_updates(plan_tree, patch)
     IN /\ plan_tree' = r.plan
        /\ changes' = r.changes
  /\ entry' = plan_tree
  /\ lastOp' = After(lastOp, [Call("apply_plan_updates", "") EXCEPT !.patch = Some(patch)])
  /\ ops' = ops + 1
  /\ UNCHANGED <<pc, root, task_element, task_id, response, result, trace, applied>>
  /\ UNCHANGED actVars
  /\ UNCHANGED chatVars

SetProgress(t, e, p) == [t EXCEPT ![e].attrs = Set(@, "progress", p)]

Pair(t, e) == <<Get(t[e].attrs, "status", ""), Get(t[e].attrs, "progress", <<>>)>>

(* execute_task, entry: what every call does before its first test *)
ExecEnter(id) ==
  /\ pc = "idle"
  /\ ops < MaxOps
  /\ entry' = plan_tree
  /\ lastOp' = After(lastOp, Call("execute_task", id))
  /\ ops' = ops + 1
  /\ response' = None
  /\ applied' = None
  /\ UNCHANGED actVars
  /\ UNCHANGED chatVars

ExecReturn(res) ==
  /\ result' = res
  /\ trace' = <<>>
  /\ UNCHANGED <<plan_tree, pc, root, task_element, task_id, changes>>

(* task.py 23-24 *)
ExecNoPlan(id) ==
  /\ ExecEnter(id)
  /\ plan_tree = None
  /\ ExecReturn(Result({"error"}, "No plan exists"))

(* mutant: an unknown id is answered with task information, not an error *)
ExecNotFound_TaskInfo(id) ==
  /\ ExecEnter(id)
  /\ plan_tree # None
  /\ Find(plan_tree[1], id) = 0
  /\ ExecReturn(Result({"task"}, ""))

(* task.py 46-52 *)
ExecNotFound(id) ==
  /\ ExecEnter(id)
  /\ plan_tree # None
  /\ Find(plan_tree[1], id) = 0
  /\ ExecReturn(Result({"error"}, "Task not found"))

(* mutant: the completed test is missing and the task is executed again *)
ExecAlreadyCompleted_ReRun(id) ==
  /\ ExecEnter(id)
  /\ plan_tree # None
  /\ Find(plan_tree[1], id) # 0
  /\ Get(plan_tree[1][Find(plan_tree[1], id)].attrs, "status", "pending") = "completed"
  /\ LET e == Find(plan_tree[1], id)
         r == [plan_tree[1] EXCEPT ![e].attrs =
                 Set(Set(@, "status", "in-progress"), "progress", <<"1", "0">>)]
     IN /\ root' = r
        /\ task_element' = e
        /\ task_id' = id
        /\ plan_tree' = Some(Serialize(r))
        /\ trace' = <<Pair(r, e)>>
        /\ pc' = "started"
        /\ UNCHANGED <<result, changes>>

(* task.py 54-69 *)
ExecAlreadyCompleted(id) ==
  /\ ExecEnter(id)
  /\ plan_tree # None
  /\ Find(plan_tree[1], id) # 0
  /\ Get(plan_tree[1][Find(plan_tree[1], id)].attrs, "status", "pending") = "completed"
  /\ ExecReturn(Result({"warning", "task"}, "Task is already marked as completed"))

(* task.py 71-82 *)
ExecDepsNotMet(id) ==
  /\ ExecEnter(id)
  /\ plan_tree # None
  /\ Find(plan_tree[1], id) # 0
  /\ Get(plan_tree[1][Find(plan_tree[1], id)].attrs, "status", "pending") # "completed"
  /\ ~check_dependencies(plan_tree, id).met
  /\ ExecReturn([keys |-> {"error", "task", "missing_dependencies"},
                 message |-> "Dependencies not met",
                 missing |-> check_dependencies(plan_tree, id).missing])

(* task.py 84-87: in-progress, progress 10, persist *)
ExecStart(id) ==
  /\ ExecEnter(id)
  /\ plan_tree # None
  /\ Find(plan_tree[1], id) # 0
  /\ Get(plan_tree[1][Find(plan_tree[1], id)].attrs, "status", "pending") # "completed"
  /\ check_dependencies(plan_tree, id).met
  /\ LET e == Find(plan_tree[1], id)
         r == [plan_tree[1] EXCEPT ![e].attrs =
                 Set(Set(@, "status", "in-progress"), "progress", <<"1", "0">>)]
     IN /\ root' = r
        /\ task_element' = e
        /\ task_id' = id
        /\ plan_tree' = Some(Serialize(r))
        /\ trace' = <<Pair(r, e)>>
        /\ pc' = "started"
        /\ UNCHANGED <<result, changes>>

(* execute_task(agent, task_id): the call, up to its first persist *)
ExecuteTask(id) ==
  \/ ExecNoPlan(id)
  \/ ExecNotFound(id)
  \/ ExecAlreadyCompleted(id)
  \/ ExecDepsNotMet(id)
  \/ ExecStart(id)

(* task.py 192-195: progress 30 before the model call *)
ExecPlanning ==
  /\ pc = "started"
  /\ root' = SetProgress(root, task_element, <<"3", "0">>)
  /\ plan_tree' = Some(Serialize(root'))
  /\ trace' = Append(trace, Pair(root', task_element))
  /\ pc' = "planning"
  /\ UNCHANGED <<task_element, task_id, response, result, entry, applied, changes, lastOp, ops>>
  /\ UNCHANGED actVars
  /\ UNCHANGED chatVars

(* task.py 197: response = agent.stream_reasoning(prompt) *)
ExecModelCall(resp) ==
  /\ pc = "planning"
  /\ IF resp.plan_update = None THEN TRUE ELSE Fits(plan_tree, resp.plan_update[1])
  /\ response' = Some(resp)
  /\ pc' = "responded"
  /\ UNCHANGED <<plan_tree, root, task_element, task_id, result, trace, entry, applied,
                 changes, lastOp, ops>>
  /\ UNCHANGED actVars
  /\ UNCHANGED chatVars

(* mutant: the progress constant after the model call is wrong *)
ExecReceived_Wrong ==
  /\ pc = "responded"
  /\ root' = SetProgress(root, task_element, <<"6", "0">>)
  /\ plan_tree' = Some(Serialize(root'))
  /\ trace' = Append(trace, Pair(root', task_element))
  /\ pc' = "received"
  /\ UNCHANGED <<task_element, task_id, response, result, entry, applied, changes, lastOp, ops>>
  /\ UNCHANGED actVars
  /\ UNCHANGED chatVars

(* task.py 199-202: progress 50 after the model call *)
ExecReceived ==
  /\ pc = "responded"
  /\ root' = SetProgress(root, task_element, <<"5", "0">>)
  /\ plan_tree' = Some(Serialize(root'))
  /\ trace' = Append(trace, Pair(root', task_element))
  /\ pc' = "received"
  /\ UNCHANGED <<task_element, task_id, response, result, entry, applied, changes, lastOp, ops>>
  /\ UNCHANGED actVars
  /\ UNCHANGED chatVars

(* task.py 204-212: extract both sections, apply the plan_update section *)
ExecApplyUpdates ==
  /\ pc = "received"
  /\ IF response[1].plan_update # None
     THEN LET r == apply_plan_updates(plan_tree, response[1].plan_update[1])
          IN /\ plan_tree' = r.plan
             /\ changes' = r.changes
             /\ applied' = Some(r.plan)
     ELSE UNCHANGED <<plan_tree, changes, applied>>
  /\ pc' = "extracted"
  /\ UNCHANGED <<root, task_element, task_id, response, result, trace, entry, lastOp, ops>>
  /\ UNCHANGED actVars
  /\ UNCHANGED chatVars

(* mutant: the failure branch forgets to reset the progress *)
ExecFinish_NoReset ==
  /\ pc = "extracted"
  /\ IF ~response[1].actions
     THEN /\ root' = [root EXCEPT ![task_element].attrs =
                        Set(Set(@, "status", "failed"), "notes", "Failed to generate actions")]
          /\ result' = Result({"error", "task", "dopamine"}, "Failed to generate actions for task")
     ELSE /\ root' = SetProgress(root, task_element, <<"7", "0">>)
          /\ result' = Result(IF response[1].plan_update # None
                              THEN {"task", "actions", "plan_update", "dopamine"}
                              ELSE {"task", "actions", "dopamine"}, "")
  /\ plan_tree' = Some(Serialize(root'))
  /\ trace' = Append(trace, Pair(root', task_element))
  /\ pc' = "idle"
  /\ UNCHANGED <<task_element, task_id, response, entry, applied, changes, lastOp, ops>>
  /\ UNCHANGED actVars
  /\ UNCHANGED chatVars

(* task.py 214-268: failed/0 without actions, else progress 70 *)
ExecFinish ==
  /\ pc = "extracted"
  /\ IF ~response[1].actions
     THEN /\ root' = [root EXCEPT ![task_element].attrs =
                        Set(Set(Set(@, "status", "failed"),
                                "notes", "Failed to generate actions"), "progress", <<"0">>)]
          /\ result' = Result({"error", "task", "dopamine"}, "Failed to generate actions for task")
     ELSE /\ root' = SetProgress(root, task_element, <<"7", "0">>)
          /\ result' = Result(IF response[1].plan_update # None
                              THEN {"task", "actions", "plan_update", "dopamine"}
                              ELSE {"task", "actions", "dopamine"}, "")
  /\ plan_tree' = Some(Serialize(root'))
  /\ trace' = Append(trace, Pair(root', task_element))
  /\ pc' = "idle"
  /\ UNCHANGED <<task_element, task_id, response, entry, applied, changes, lastOp, ops>>
  /\ UNCHANGED actVars
  /\ UNCHANGED chatVars

Next ==
  \/ \E c \in UpdateCalls : UpdatePlan(c.id, c.new_status, c.notes, c.progress)
  \/ \E patch \in Patches : ApplyPlanUpdates(patch)
  \/ \E id \in CallIds : ExecuteTask(id)
  \/ ExecPlanning
  \/ \E resp \in Responses : ExecModelCall(resp)
  \/ ExecReceived
  \/ ExecApplyUpdates
  \/ ExecFinish

Spec == Init /\ [][Next]_vars

(* ====================================================================== *)
(* interface/actions.py and utils/shell.py                                 *)
(*                                                                         *)
(* File contents, search texts and process output are sequences of         *)
(* characters.  The file system is [files, dirs, exec]: files maps a path  *)
(* to None (no such file) or Some(content), dirs is the set of existing    *)
(* directories, exec the set of paths made executable.  console is the     *)
(* sequence of what the call printed and asked; launched is the sequence   *)
(* of commands handed to subprocess.Popen.  A process run is               *)
(* [stdout, stderr, returncode], stdout being the lines the process wrote  *)
(* (without their line ends).  The texts of the change, search and         *)
(* replace elements are strings, an absent element reading as "".          *)
(* ====================================================================== *)
MaxActs == 2

OutputLimit == 5000

Marker ==
  << ".", ".", ".", " ", "(", "o", "u", "t", "p", "u", "t", " ", "t", "r", "u", "n", "c",
     "a", "t", "e", "d", ")", " ", ".", ".", ".", "\n" >>

(* ---------------------------------------------------------------------- *)
(* str.lower, str.rstrip, "\n".join, in, str.replace                       *)
(* ---------------------------------------------------------------------- *)
Lower(c) == IF c = "Y" THEN "y" ELSE c

Whitespace == {" ", "\n", "\t"}

RECURSIVE RStrip(_)
RStrip(s) ==
  IF s = <<>> THEN s
  ELSE IF s[Len(s)] \in Whitespace THEN RStrip(SubSeq(s, 1, Len(s) - 1))
  ELSE s

RECURSIVE LStrip(_)
LStrip(s) ==
  IF s = <<>> THEN s
  ELSE IF Head(s) \in Whitespace THEN LStrip(Tail(s))
  ELSE s

RECURSIVE Join(_)
Join(lines) ==
  IF lines = <<>> THEN <<>>
  ELSE IF Len(lines) = 1 THEN lines[1]
  ELSE lines[1] \o <<"\n">> \o Join(Tail(lines))

Contains(s, sub) == \E k \in 1..(Len(s) - Len(sub) + 1) : SubSeq(s, k, k + Len(sub) - 1) = sub

RECURSIVE Interleave(_, _)
Interleave(s, new) ==
  IF s = <<>> THEN <<>> ELSE <<Head(s)>> \o new \o Interleave(Tail(s), new)

(* str.replace(old, new): every occurrence, left to right, not overlapping *)
RECURSIVE Replace(_, _, _)
Replace(s, old, new) ==
  IF old = <<>> THEN new \o Interleave(s, new)
  ELSE IF Len(s) < Len(old) THEN s
  ELSE IF SubSeq(s, 1, Len(old)) = old
       THEN new \o Replace(SubSeq(s, Len(old) + 1, Len(s)), old, new)
  ELSE <<Head(s)>> \o Replace(Tail(s), old, new)

(* mutant: the count argument is dropped, every occurrence is replaced *)
ReplaceFirst_Every(s, old, new) == Replace(s, old, new)

(* str.replace(old, new, 1) *)
RECURSIVE ReplaceFirst(_, _, _)
ReplaceFirst(s, old, new) ==
  IF old = <<>> THEN new \o s
  ELSE IF Len(s) < Len(old) THEN s
  ELSE IF SubSeq(s, 1, Len(old)) = old THEN new \o SubSeq(s, Len(old) + 1, Len(s))
  ELSE <<Head(s)>> \o ReplaceFirst(Tail(s), old, new)

(* ---------------------------------------------------------------------- *)
(* os.path.dirname, os.path.splitext, os.path.exists, open(path, "w")      *)
(* ---------------------------------------------------------------------- *)
Paths == {"a.txt", "d/s.py", "run"}

Dirname(path) == IF path = "d/s.py" THEN "d" ELSE ""

Ext(path) == IF path = "a.txt" THEN ".txt" ELSE IF path = "d/s.py" THEN ".py" ELSE ""

Exists(f, path) == path \in Paths /\ f.files[path] # None

CanOpen(f, path) == path \in Paths /\ (Dirname(path) = "" \/ Dirname(path) \in f.dirs)

WriteFile(f, path, content) == [f EXCEPT !.files[path] = Some(content)]

Makedirs(f, directory) == [f EXCEPT !.dirs = @ \cup {directory}]

Chmod(f, path) == [f EXCEPT !.exec = @ \cup {path}]

(* mutant: the answer is not looked at, every action is carried out *)
Declined_Never(confirm) == FALSE

(* confirm.lower() != "y" *)
Declined(confirm) == Lower(confirm) # "y"

Outcome(f, l, r, c) == [fs |-> f, launched |-> l, ret |-> r, console |-> c]

(* ---------------------------------------------------------------------- *)
(* execute_action (actions.py 10-154)                                      *)
(* An action element is [type, path, command, text, changes], a change     *)
(* [original, new].                                                        *)
(* ---------------------------------------------------------------------- *)
Displayed(a) ==
  IF a.type \in {"create_file", "modify_file", "run_command"} THEN <<"Action">> ELSE <<>>

CreateFile(f, l, a, shown) ==
  LET content == LStrip(RStrip(a.text))
      directory == Dirname(a.path)
      made == directory # "" /\ directory \notin f.dirs
      f1 == IF made THEN Makedirs(f, directory) ELSE f
      script == Ext(a.path) = ".py" \/ Ext(a.path) = ""
      f2 == WriteFile(f1, a.path, content)
      f3 == IF script THEN Chmod(f2, a.path) ELSE f2
  IN IF ~CanOpen(f1, a.path)
     THEN Outcome(f1, l, FALSE, shown \o <<"Error executing action">>)
     ELSE Outcome(f3, l, TRUE,
                  shown \o (IF made THEN <<"Created directory">> ELSE <<>>) \o <<"Created file">>
                        \o (IF script THEN <<"Made file executable">> ELSE <<>>))

(* mutant: the first change whose original is absent ends the batch *)
RECURSIVE ApplyChanges_StopAtMissing(_, _)
ApplyChanges_StopAtMissing(w, chs) ==
  IF chs = <<>> THEN w
  ELSE IF Contains(w.file_content, Head(chs).original)
       THEN ApplyChanges_StopAtMissing(
              [w EXCEPT !.file_content = Replace(@, Head(chs).original, Head(chs).new),
                        !.changes_applied = TRUE], Tail(chs))
       ELSE [w EXCEPT !.console = Append(@, "Warning: Could not find text to replace")]

RECURSIVE ApplyChanges(_, _)
ApplyChanges(w, chs) ==
  IF chs = <<>> THEN w
  ELSE LET original == Head(chs).original
           new == Head(chs).new
       IN IF Contains(w.file_content, original)
          THEN ApplyChanges([w EXCEPT !.file_content = Replace(@, original, new),
                                      !.changes_applied = TRUE], Tail(chs))
          ELSE ApplyChanges([w EXCEPT !.console = Append(@, "Warning: Could not find text to replace")],
                            Tail(chs))

ModifyFile(f, l, a, shown) ==
  IF ~Exists(f, a.path)
  THEN Outcome(f, l, FALSE, shown \o <<"Error: File does not exist">>)
  ELSE LET w == ApplyChanges([file_content |-> f.files[a.path][1], changes_applied |-> FALSE,
                              console |-> shown], a.changes)
       IN IF w.changes_applied
          THEN Outcome(WriteFile(f, a.path, w.file_content), l, TRUE,
                       Append(w.console, "Modified file"))
          ELSE Outcome(f, l, FALSE, Append(w.console, "No changes applied"))

RunCommand(f, l, a, shown, run) ==
  Outcome(f, Append(l, a.command), run.returncode = 0,
          shown \o <<"Running command">>
                \o (IF run.returncode = 0 THEN <<"Command completed successfully">>
                    ELSE <<"Command failed">>))

execute_action(f, l, a, confirm, run) ==
  LET shown == Displayed(a) \o <<"ask">>
  IN IF Declined(confirm) THEN Outcome(f, l, FALSE, shown \o <<"Action skipped">>)
     ELSE IF a.type = "create_file" THEN CreateFile(f, l, a, shown)
     ELSE IF a.type = "modify_file" THEN ModifyFile(f, l, a, shown)
     ELSE IF a.type = "run_command" THEN RunCommand(f, l, a, shown, run)
     ELSE Outcome(f, l, FALSE, shown \o <<"Unknown action type">>)

(* ---------------------------------------------------------------------- *)
(* execute_file_edit (actions.py 156-268)                                  *)
(* An edit element is [path, search, replace], search and replace being    *)
(* None (no such element) or Some(text).                                   *)
(* ---------------------------------------------------------------------- *)
execute_file_edit(f, l, e, confirm, create_file) ==
  IF e.path = "" THEN Outcome(f, l, FALSE, <<"Error: Missing file path in edit">>)
  ELSE IF e.search = None \/ e.replace = None
  THEN Outcome(f, l, FALSE, <<"Error: Missing search or replace elements">>)
  ELSE LET search_text == e.search[1]
           replace_text == e.replace[1]
           shown == <<"File Edit", "ask">>
           directory == Dirname(e.path)
           made == directory # "" /\ directory \notin f.dirs
           f1 == IF made THEN Makedirs(f, directory) ELSE f
       IN IF Declined(confirm) THEN Outcome(f, l, FALSE, shown \o <<"Edit skipped">>)
          ELSE IF ~Exists(f, e.path)
          THEN IF Declined(create_file)
               THEN Outcome(f, l, FALSE, shown \o <<"ask", "Edit skipped">>)
               ELSE Outcome(WriteFile(f1, e.path, replace_text), l, TRUE,
                            shown \o <<"ask">>
                                  \o (IF made THEN <<"Created directory">> ELSE <<>>)
                                  \o <<"Created file", "Applied edit">>)
          ELSE LET content == f.files[e.path][1]
               IN IF search_text = <<>>
                  THEN Outcome(WriteFile(f, e.path, content \o replace_text), l, TRUE,
                               shown \o <<"Appending to file", "Applied edit">>)
                  ELSE IF ~Contains(content, search_text)
                  THEN Outcome(f, l, FALSE, shown \o <<"Warning: Search text not found">>)
                  ELSE Outcome(WriteFile(f, e.path, ReplaceFirst(content, search_text, replace_text)),
                               l, TRUE, shown \o <<"Applied edit">>)

(* ---------------------------------------------------------------------- *)
(* execute_shell_command (actions.py 270-345), execute_command             *)
(* (shell.py 7-65)                                                         *)
(* ---------------------------------------------------------------------- *)
RECURSIVE RStripAll(_)
RStripAll(lines) == IF lines = <<>> THEN <<>> ELSE <<RStrip(Head(lines))>> \o RStripAll(Tail(lines))

(* mutant: the first OutputLimit characters are kept, not the last *)
Truncate_Head(full_output) ==
  IF Len(full_output) > OutputLimit
  THEN Marker \o SubSeq(full_output, 1, OutputLimit)
  ELSE full_output

(* actions.py 326-331, shell.py 49-54 *)
Truncate(full_output) ==
  IF Len(full_output) > OutputLimit
  THEN Marker \o SubSeq(full_output, Len(full_output) - OutputLimit + 1, Len(full_output))
  ELSE full_output

ExecutionContext(command, auto_run) ==
  [command |-> command, auto_run |-> auto_run, user_approved |-> FALSE, success |-> FALSE,
   output |-> <<>>, error |-> <<>>, return_code |-> None]

execute_shell_command(l, command, auto_run, confirm, run) ==
  LET c0 == ExecutionContext(command, auto_run)
      shown == <<"Shell Command">> \o (IF auto_run THEN <<>> ELSE <<"ask">>)
      c1 == [c0 EXCEPT !.user_approved = TRUE,
                       !.output = Truncate(Join(RStripAll(run.stdout))),
                       !.error = run.stderr,
                       !.return_code = Some(run.returncode),
                       !.success = (run.returncode = 0)]
  IN IF ~auto_run /\ Declined(confirm)
     THEN [launched |-> l, ret |-> FALSE, context |-> c0,
           console |-> shown \o <<"Command execution skipped">>]
     ELSE [launched |-> Append(l, command), ret |-> (run.returncode = 0), context |-> c1,
           console |-> shown \o <<"Running command">>
                             \o (IF run.returncode = 0 THEN <<"Command completed successfully">>
                                 ELSE <<"Command failed">>)]

ShellResult(command) ==
  [command |-> command, returncode |-> None, stdout |-> <<>>, stderr |-> "", success |-> FALSE]

execute_command(l, command, raises, run) ==
  IF raises
  THEN [launched |-> l, ret |-> FALSE,
        context |-> [ShellResult(command) EXCEPT !.stderr = "exception"]]
  ELSE [launched |-> Append(l, command), ret |-> (run.returncode = 0),
        context |-> [ShellResult(command) EXCEPT
                       !.stdout = Truncate(Join(RStripAll(run.stdout))),
                       !.stderr = run.stderr,
                       !.returncode = Some(run.returncode),
                       !.success = (run.returncode = 0)]]

(* ---------------------------------------------------------------------- *)
(* update_dependent_tasks (actions.py 361-385)                             *)
(* ---------------------------------------------------------------------- *)
(* actions.py 365-384: the test made on one task *)
MarkReady(t, i, completed_task_id) ==
  LET depends_on == Get(t[i].attrs, "depends_on", <<>>)
      dependencies == StripAll(SplitComma(depends_on))
      Completed(f) == FindField(t, f) # 0
                        /\ Get(t[FindField(t, f)].attrs, "status", "") = "completed"
      all_deps_completed ==
        \A k \in 1..Len(dependencies) :
          dependencies[k] = <<completed_task_id>> \/ Completed(dependencies[k])
  IN /\ depends_on # <<>>
     /\ \E k \in 1..Len(dependencies) : dependencies[k] = <<completed_task_id>>
     /\ all_deps_completed
     /\ Get(t[i].attrs, "status", "pending") = "pending"

RECURSIVE UpdateEach(_, _, _)
UpdateEach(w, tasks, completed_task_id) ==
  IF tasks = <<>> THEN w
  ELSE LET i == Head(tasks)
       IN IF MarkReady(w.t, i, completed_task_id)
          THEN UpdateEach([t       |-> [w.t EXCEPT ![i].attrs = Set(@, "status", "ready")],
                           console |-> Append(w.console, Get(w.t[i].attrs, "id", "None"))],
                          Tail(tasks), completed_task_id)
          ELSE UpdateEach(w, Tail(tasks), completed_task_id)

update_dependent_tasks(t, completed_task_id) ==
  UpdateEach([t |-> t, console |-> <<>>], DocOrder(t), completed_task_id)

(* ---------------------------------------------------------------------- *)
(* Inputs of the action functions                                          *)
(* ---------------------------------------------------------------------- *)
Dependent(parent, id, status, deps) ==
  [parent |-> parent,
   attrs  |-> [id |-> id, description |-> id, status |-> status, depends_on |-> deps]]

DepTree(s1, s2, s3, s4) ==
  << RootTask,
     Dependent(1, "t1", s1, <<>>),
     Dependent(1, "t2", s2, <<"t1">>),
     Dependent(3, "t3", s3, <<"t1", ",", " ", "t2">>),
     Dependent(1, "t4", s4, <<"t1", ",">>),
     [parent |-> 1, attrs |-> [id |-> "t5", description |-> "t5", depends_on |-> <<" ", "t1">>]],
     Dependent(1, "t6", "pending", <<"t1", ",", "tx">>) >>

DepTrees ==
  { DepTree(s1, s2, s3, s4) :
      s1 \in {"completed", "pending"},
      s2 \in {"pending", "ready", "in-progress", "completed", "failed"},
      s3 \in {"pending", "ready", "completed"},
      s4 \in {"pending", "failed"} }

CompletedIds == {"t1", "t2", "tx"}

NoFiles == [p \in Paths |-> None]

FsEmpty == [files |-> NoFiles, dirs |-> {}, exec |-> {}]

FsSome ==
  [files |-> [NoFiles EXCEPT !["a.txt"] = Some(<<"a", "b", "a", "b">>), !["run"] = Some(<<"a">>)],
   dirs  |-> {},
   exec  |-> {"run"}]

InitFs == {FsEmpty, FsSome}

Element(type, path, command, text, chs) ==
  [type |-> type, path |-> path, command |-> command, text |-> text, changes |-> chs]

Change(original, new) == [original |-> original, new |-> new]

ChangeLists ==
  { << Change(<<"a", "b">>, <<"b">>) >>,
    << Change(<<"x">>, <<"a">>), Change(<<"a">>, <<"b", "a">>) >>,
    << Change(<<"x">>, <<"a">>) >>,
    << Change(<<>>, <<"b">>) >>,
    << >> }

ActionElements ==
  { Element("create_file", p, "", <<" ", "a", "b", " ">>, <<>>) : p \in Paths \cup {""} }
    \cup { Element("modify_file", p, "", <<>>, chs) : p \in {"a.txt", "d/s.py"}, chs \in ChangeLists }
    \cup { Element("run_command", "", "ls", <<>>, <<>>), Element("delete_file", "a.txt", "", <<>>, <<>>) }

EditElements ==
  [path : {"a.txt", "d/s.py"}, search : {Some(<<>>), Some(<<"a", "b">>), Some(<<"x">>)},
   replace : {Some(<<"b">>)}]
    \cup [path : {""}, search : {Some(<<>>)}, replace : {Some(<<"b">>)}]
    \cup [path : {"a.txt"}, search : {None, Some(<<"a">>)}, replace : {None}]

Answers == {"Y", "n"}

Line(n) == [i \in 1..n |-> AsciiDigits[(i % 7) + 1]]

Stdouts ==
  { << >>,
    << Line(2) \o <<" ">>, Line(1) >>,
    << Line(OutputLimit) >>,
    << Line(OutputLimit) \o <<" ">> >>,
    << Line(OutputLimit + 1) >>,
    << Line(OutputLimit \div 2), Line(OutputLimit - (OutputLimit \div 2) - 1) >>,
    << Line(OutputLimit \div 2), Line(OutputLimit - (OutputLimit \div 2)) >>,
    << Line(OutputLimit + 1000) >> }

Run(stdout, stderr, returncode) == [stdout |-> stdout, stderr |-> stderr, returncode |-> returncode]

NoRun == Run(<<>>, "", 0)

Runs ==
  { Run(s, "", 0) : s \in Stdouts }
    \cup { Run(<<>>, "e", 1), Run(<<Line(OutputLimit + 1000)>>, "e", 1) }

ExitRuns == { Run(<<Line(1)>>, "", 0), Run(<<>>, "e", 1) }

Commands == {"ls"}

Acting(op, arg, confirm, create_file, auto_run, run) ==
  [op |-> op, arg |-> arg, confirm |-> confirm, create_file |-> create_file,
   auto_run |-> auto_run, run |-> run, launched0 |-> Len(launched)]

(* ---------------------------------------------------------------------- *)
(* State machine of the action functions                                   *)
(* ---------------------------------------------------------------------- *)
InitDependents ==
  /\ PlanStart({None})
  /\ ChatIdle
  /\ tree \in DepTrees
  /\ tree0 = <<>>
  /\ fs = NoFs
  /\ fs0 = NoFs
  /\ launched = <<>>
  /\ ret = None
  /\ console = <<>>
  /\ context = None
  /\ act = NoAction
  /\ acts = 0

InitActions ==
  /\ PlanStart({None})
  /\ ChatIdle
  /\ tree = <<>>
  /\ tree0 = <<>>
  /\ fs \in InitFs
  /\ fs0 = NoFs
  /\ launched = <<>>
  /\ ret = None
  /\ console = <<>>
  /\ context = None
  /\ act = NoAction
  /\ acts = 0

(* update_dependent_tasks(root, completed_task_id, console) *)
UpdateDependentTasks(completed_task_id) ==
  /\ acts < MaxActs
  /\ LET r == update_dependent_tasks(tree, completed_task_id)
     IN /\ tree' = r.t
        /\ console' = r.console
  /\ tree0' = tree
  /\ act' = Acting("update_dependent_tasks", completed_task_id, "", "", FALSE, NoRun)
  /\ acts' = acts + 1
  /\ UNCHANGED <<fs, fs0, launched, ret, context>>
  /\ UNCHANGED planVars
  /\ UNCHANGED chatVars

(* execute_action(action_element, console) *)
ExecuteAction(a, confirm, run) ==
  /\ acts < MaxActs
  /\ LET r == execute_action(fs, launched, a, confirm, run)
     IN /\ fs' = r.fs
        /\ launched' = r.launched
        /\ ret' = Some(r.ret)
        /\ console' = r.console
  /\ fs0' = fs
  /\ act' = Acting("execute_action", a, confirm, "", FALSE, run)
  /\ acts' = acts + 1
  /\ UNCHANGED <<tree, tree0, context>>
  /\ UNCHANGED planVars
  /\ UNCHANGED chatVars

(* execute_file_edit(edit_element, console) *)
ExecuteFileEdit(e, confirm, create_file) ==
  /\ acts < MaxActs
  /\ LET r == execute_file_edit(fs, launched, e, confirm, create_file)
     IN /\ fs' = r.fs
        /\ launched' = r.launched
        /\ ret' = Some(r.ret)
        /\ console' = r.console
  /\ fs0' = fs
  /\ act' = Acting("execute_file_edit", e, confirm, create_file, FALSE, NoRun)
  /\ acts' = acts + 1
  /\ UNCHANGED <<tree, tree0, context>>
  /\ UNCHANGED planVars
  /\ UNCHANGED chatVars

(* execute_shell_command(command, console, auto_run) *)
ExecuteShellCommand(command, auto_run, confirm, run) ==
  /\ acts < MaxActs
  /\ LET r == execute_shell_command(launched, command, auto_run, confirm, run)
     IN /\ launched' = r.launched
        /\ ret' = Some(r.ret)
        /\ context' = Some(r.context)
        /\ console' = r.console
  /\ fs0' = fs
  /\ act' = Acting("execute_shell_command", command, confirm, "", auto_run, run)
  /\ acts' = acts + 1
  /\ UNCHANGED <<tree, tree0, fs>>
  /\ UNCHANGED planVars
  /\ UNCHANGED chatVars

(* shell.execute_command(command, cwd) *)
ExecuteCommand(command, raises, run) ==
  /\ acts < MaxActs
  /\ LET r == execute_command(launched, command, raises, run)
     IN /\ launched' = r.launched
        /\ ret' = Some(r.ret)
        /\ context' = Some(r.context)
  /\ console' = <<>>
  /\ fs0' = fs
  /\ act' = Acting("execute_command", command, "", "", raises, run)
  /\ acts' = acts + 1
  /\ UNCHANGED <<tree, tree0, fs>>
  /\ UNCHANGED planVars
  /\ UNCHANGED chatVars

NextDependents == \E c \in CompletedIds : UpdateDependentTasks(c)

NextActions ==
  \/ \E a \in ActionElements, confirm \in Answers :
       \E run \in (IF a.type = "run_command" THEN ExitRuns ELSE {NoRun}) :
         ExecuteAction(a, confirm, run)
  \/ \E e \in EditElements, confirm \in Answers, create_file \in Answers :
       ExecuteFileEdit(e, confirm, create_file)
  \/ \E command \in Commands, auto_run \in BOOLEAN, confirm \in Answers, run \in ExitRuns :
       ExecuteShellCommand(command, auto_run, confirm, run)

NextShell ==
  \/ \E command \in Commands, auto_run \in BOOLEAN, confirm \in Answers, run \in Runs :
       ExecuteShellCommand(command, auto_run, confirm, run)
  \/ \E command \in Commands, raises \in BOOLEAN :
       \E run \in (IF raises THEN {NoRun} ELSE Runs) : ExecuteCommand(command, raises, run)

SpecDependents == InitDependents /\ [][NextDependents]_vars

SpecActions == InitActions /\ [][NextActions]_vars

SpecShell == InitActions /\ [][NextShell]_vars

(* ---------------------------------------------------------------------- *)
(* is_command_safe (shell.py 67-111)                                       *)
(* ---------------------------------------------------------------------- *)
dangerous_patterns ==
  <<
     <<"r", "m", " ", "-", "r", "f">>,
     <<"r", "m", " ", "-", "r">>,
     <<"r", "m", "d", "i", "r">>,
     <<"d", "d">>,
     <<">", " ", "/", "d", "e", "v", "/">>,
     <<"m", "k", "f", "s">>,
     <<"f", "d", "i", "s", "k">>,
     <<"f", "o", "r", "m", "a", "t">>,
     <<"c", "h", "m", "o", "d", " ", "-", "R">>,
     <<"c", "h", "o", "w", "n", " ", "-", "R">>,
     <<":", "(", ")", "{", ":", "|", ":", "&", "}", ";", ":">>,
     <<"w", "g", "e", "t">>,
     <<"c", "u", "r", "l">>,
     <<">", " ", "/", "e", "t", "c", "/">>,
     <<">", " ", "~", "/", ".", "s", "s", "h", "/">>,
     <<"s", "u", "d", "o">>,
     <<"s", "u">>,
     <<"s", "h", "u", "t", "d", "o", "w", "n">>,
     <<"r", "e", "b", "o", "o", "t">>,
     <<"h", "a", "l", "t">>,
     <<"m", "v", " ", "/", "*", " ">>,
     <<"f", "i", "n", "d", " ", "/", " ", "-", "d", "e", "l", "e", "t", "e">> >>

safe_commands ==
  <<
     <<"l", "s">>,
     <<"d", "i", "r">>,
     <<"e", "c", "h", "o">>,
     <<"c", "a", "t">>,
     <<"h", "e", "a", "d">>,
     <<"t", "a", "i", "l">>,
     <<"p", "w", "d">>,
     <<"c", "d">>,
     <<"m", "k", "d", "i", "r">>,
     <<"t", "o", "u", "c", "h">>,
     <<"g", "r", "e", "p">>,
     <<"f", "i", "n", "d">>,
     <<"w", "c">>,
     <<"s", "o", "r", "t">>,
     <<"u", "n", "i", "q">>,
     <<"g", "i", "t", " ", "s", "t", "a", "t", "u", "s">>,
     <<"g", "i", "t", " ", "l", "o", "g">>,
     <<"g", "i", "t", " ", "b", "r", "a", "n", "c", "h">>,
     <<"g", "i", "t", " ", "d", "i", "f", "f">>,
     <<"p", "y", "t", "h", "o", "n">>,
     <<"p", "y", "t", "h", "o", "n", "3">>,
     <<"p", "i", "p">>,
     <<"p", "i", "p", "3">>,
     <<"p", "y", "t", "e", "s", "t">>,
     <<"n", "p", "m", " ", "t", "e", "s", "t">>,
     <<"n", "p", "m", " ", "r", "u", "n">>,
     <<"p", "s">>,
     <<"t", "o", "p">>,
     <<"h", "t", "o", "p">>,
     <<"d", "f">>,
     <<"d", "u">> >>

StartsWith(s, prefix) == Len(prefix) <= Len(s) /\ SubSeq(s, 1, Len(prefix)) = prefix

(* the two loops of shell.py 90-92 and 106-108 *)
RECURSIVE AnyIn(_, _)
AnyIn(patterns, command) ==
  IF patterns = <<>> THEN FALSE
  ELSE IF Contains(command, Head(patterns)) THEN TRUE
  ELSE AnyIn(Tail(patterns), command)

RECURSIVE AnyPrefix(_, _)
AnyPrefix(safes, command) ==
  IF safes = <<>> THEN FALSE
  ELSE IF StartsWith(command, Head(safes)) THEN TRUE
  ELSE AnyPrefix(Tail(safes), command)

(* mutant: the allow list is consulted before the deny list *)
is_command_safe_AllowFirst(command) ==
  IF AnyPrefix(safe_commands, command) THEN TRUE
  ELSE FALSE

is_command_safe(command) ==
  IF AnyIn(dangerous_patterns, command) THEN FALSE
  ELSE IF AnyPrefix(safe_commands, command) THEN TRUE
  ELSE FALSE

CommandHeads ==
  {
     <<"l", "s">>,
     <<"c", "a", "t", " ", "f">>,
     <<"e", "c", "h", "o", " ", "h", "i">>,
     <<"g", "i", "t", " ", "s", "t", "a", "t", "u", "s">>,
     <<"g", "i", "t", " ", "p", "u", "s", "h">>,
     <<"p", "y", "t", "h", "o", "n", "3", " ", "x", ".", "p", "y">>,
     <<"r", "m", " ", "-", "r", "f", " ", "/">>,
     <<"s", "u", "d", "o", " ", "l", "s">>,
     <<"l", "s", "o", "f">>,
     <<" ", "l", "s">>,
     << >>,
     <<"m", "a", "k", "e">>,
     <<"f", "i", "n", "d", " ", "/", " ", "-", "d", "e", "l", "e", "t", "e">>,
     <<"m", "v", " ", "/", "*", " ", "x">>,
     <<"c", "d", "r", "o", "m">>,
     <<"n", "p", "m", " ", "i", "n", "s", "t", "a", "l", "l">> }

CommandTails ==
  {
     << >>,
     <<" ", "-", "l", "a">>,
     <<" ", "|", " ", "w", "c">>,
     <<" ", ">", " ", "/", "d", "e", "v", "/", "n", "u", "l", "l">>,
     <<";", " ", "r", "m", " ", "-", "r", " ", "x">>,
     <<" ", "&", "&", " ", "c", "u", "r", "l", " ", "x">>,
     <<" ", "-", "-", "f", "o", "r", "m", "a", "t", "=", "a">>,
     <<" ", "a", "/", "r", "e", "s", "u", "l", "t">>,
     <<" ", "a", "d", "d", "r", "e", "s", "s">>,
     <<" ", ">", " ", "o", "u", "t">> }

CommandLines == { h \o t : h \in CommandHeads, t \in CommandTails }

InitSafe == PlanStart({None}) /\ ActionsIdle /\ ChatIdle

(* is_command_safe(command) *)
IsCommandSafe(command) ==
  /\ acts < MaxActs
  /\ ret' = Some(is_command_safe(command))
  /\ act' = Acting("is_command_safe", command, "", "", FALSE, NoRun)
  /\ acts' = acts + 1
  /\ UNCHANGED <<tree, tree0, fs, fs0, launched, console, context>>
  /\ UNCHANGED planVars
  /\ UNCHANGED chatVars

NextSafe == \E command \in CommandLines : IsCommandSafe(command)

SpecSafe == InitSafe /\ [][NextSafe]_vars

(* ====================================================================== *)
(* utils/xml_tools.py and Agent.extract_xml_from_response (agent/core.py)  *)
(*                                                                         *)
(* Responses, tag names and XML documents are sequences of characters.     *)
(* Indexes and slices are Python's: positions count from 0, a negative     *)
(* position counts from the end, a slice is cut to the string.  A call     *)
(* returns, Returns(value), or raises, Raises(exception).                  *)
(* ====================================================================== *)
Max(a, b) == IF a >= b THEN a ELSE b

Min(a, b) == IF a <= b THEN a ELSE b

(* s.find(sub, start) *)
StrFind(s, sub, start) ==
  LET from == IF start < 0 THEN Max(0, Len(s) + start) ELSE start
      found == { k \in from..(Len(s) - Len(sub)) : SubSeq(s, k + 1, k + Len(sub)) = sub }
  IN IF found = {} THEN -1 ELSE CHOOSE k \in found : \A j \in found : k <= j

(* s[a:b] *)
Slice(s, a, b) ==
  LET lo == IF a < 0 THEN Max(0, Len(s) + a) ELSE Min(a, Len(s))
      hi == IF b < 0 THEN Max(0, Len(s) + b) ELSE Min(b, Len(s))
  IN IF lo >= hi THEN <<>> ELSE SubSeq(s, lo + 1, hi)

StartTag(tag_name) == <<"<">> \o tag_name

EndTag(tag_name) == <<"<", "/">> \o tag_name \o <<">">>

(* xml_tools.py 8-32 *)
extract_xml_from_response(resp, tag_name) ==
  LET start_tag == StartTag(tag_name)
      end_tag == EndTag(tag_name)
      start_index == StrFind(resp, start_tag, 0)
      end_index == StrFind(resp, end_tag, start_index)
  IN IF start_index = -1 THEN None
     ELSE IF end_index = -1 THEN None
     ELSE Some(Slice(resp, start_index, end_index + Len(end_tag)))

(* core.py 307-322 *)
Agent_extract_xml_from_response(resp, tag_name) ==
  LET start_tag == StartTag(tag_name)
      end_tag == EndTag(tag_name)
      start_index == StrFind(resp, start_tag, 0)
      end_index == StrFind(resp, end_tag, start_index) + Len(end_tag)
  IN IF start_index # -1 /\ end_index # -1
     THEN Some(Slice(resp, start_index, end_index))
     ELSE None

(* ---------------------------------------------------------------------- *)
(* Results of calls                                                        *)
(* ---------------------------------------------------------------------- *)
Returns(v) == [raised |-> "", value |-> v]

Raises(e) == [raised |-> e, value |-> <<>>]

(* g(f(x)), next being g of the value of r: an exception raised by the     *)
(* inner call passes through the outer                                     *)
Then(r, next) == IF r.raised # "" THEN r ELSE next

(* ---------------------------------------------------------------------- *)
(* ET.fromstring (xml_tools.py 79, 112): the parser, for documents made of *)
(* elements, attributes in double quotes, text and the five predefined     *)
(* entities.  A parsed document is the sequence of its elements in         *)
(* document order, [parent, tag, attrs, text]: parent is the index of the  *)
(* parent element (0 for the root), attrs the sequence of [name, value],   *)
(* text the characters before the first child ("" and None are not told    *)
(* apart).  The text after an element (its tail) is parsed and dropped:    *)
(* format_elem never reads it.                                             *)
(* ---------------------------------------------------------------------- *)
NameStartChars == { "a", "b", "c", "d", "e", "f", "g", "h", "i", "j", "k", "l", "m", "n", "o", "p", "q", "r", "s", "t", "u", "v", "w", "x", "y", "z", "_" }

NameChars == NameStartChars \cup { AsciiDigits[d] : d \in 1..10 } \cup {"-", "."}

Entities ==
  { [ref |-> <<"&", "a", "m", "p", ";">>, ch |-> "&"],
    [ref |-> <<"&", "l", "t", ";">>, ch |-> "<"],
    [ref |-> <<"&", "g", "t", ";">>, ch |-> ">"],
    [ref |-> <<"&", "q", "u", "o", "t", ";">>, ch |-> "\""],
    [ref |-> <<"&", "a", "p", "o", "s", ";">>, ch |-> "'"] }

Char(s, i) == IF i >= 1 /\ i <= Len(s) THEN s[i] ELSE ""

At(s, lit, i) == i >= 1 /\ i + Len(lit) - 1 <= Len(s) /\ SubSeq(s, i, i + Len(lit) - 1) = lit

RECURSIVE SkipWs(_, _)
SkipWs(s, i) == IF Char(s, i) \in Whitespace THEN SkipWs(s, i + 1) ELSE i

RECURSIVE NameEnd(_, _)
NameEnd(s, i) == IF Char(s, i) \in NameChars THEN NameEnd(s, i + 1) ELSE i

CDataStart == <<"<", "!", "[", "C", "D", "A", "T", "A", "[">>

CDataEnd == <<"]", "]", ">">>

RECURSIVE ParseChars(_, _, _, _)
(* the rest of a CDATA section that opens at i, "]]>" being found at close *)
CDataSection(s, i, quoted, acc, close) ==
  IF close = -1 THEN [ok |-> FALSE, pos |-> i, text |-> acc]
  ELSE ParseChars(s, close + Len(CDataEnd) + 1, quoted,
                  acc \o SubSeq(s, i + Len(CDataStart), close))

(* character data up to the next tag, or an attribute value up to its      *)
(* closing quote; entity references are decoded, a CDATA section of        *)
(* character data is taken as it stands up to its first "]]>", and "]]>"   *)
(* outside a CDATA section is not well-formed                              *)
ParseChars(s, i, quoted, acc) ==
  LET c == Char(s, i)
  IN IF ~quoted /\ At(s, CDataStart, i)
     THEN CDataSection(s, i, quoted, acc, StrFind(s, CDataEnd, i + Len(CDataStart) - 1))
     ELSE IF ~quoted /\ At(s, CDataEnd, i) THEN [ok |-> FALSE, pos |-> i, text |-> acc]
     ELSE IF c = "" \/ c = "<" THEN [ok |-> ~quoted, pos |-> i, text |-> acc]
     ELSE IF quoted /\ c = "\"" THEN [ok |-> TRUE, pos |-> i, text |-> acc]
     ELSE IF c = "&"
     THEN IF \E e \in Entities : At(s, e.ref, i)
          THEN LET e == CHOOSE e \in Entities : At(s, e.ref, i)
               IN ParseChars(s, i + Len(e.ref), quoted, Append(acc, e.ch))
          ELSE [ok |-> FALSE, pos |-> i, text |-> acc]
     ELSE ParseChars(s, i + 1, quoted, Append(acc, IF quoted /\ c \in Whitespace THEN " " ELSE c))

RECURSIVE ParseAttrs(_, _, _)
(* the attribute name that starts at j, once its value v is parsed *)
AttrValue(s, j, acc, name, v) ==
  IF ~v.ok \/ \E n \in 1..Len(acc) : acc[n].name = name
  THEN [ok |-> FALSE, pos |-> j, attrs |-> acc]
  ELSE ParseAttrs(s, v.pos + 1, Append(acc, [name |-> name, value |-> v.text]))

ParseAttrs(s, i, acc) ==
  LET j == SkipWs(s, i)
      e == NameEnd(s, j)
      k == SkipWs(s, e)
      q == SkipWs(s, k + 1)
  IN IF Char(s, j) \in {">", "/"} THEN [ok |-> TRUE, pos |-> j, attrs |-> acc]
     ELSE IF \/ j = i
             \/ Char(s, j) \notin NameStartChars
             \/ Char(s, k) # "="
             \/ Char(s, q) # "\""
     THEN [ok |-> FALSE, pos |-> j, attrs |-> acc]
     ELSE AttrValue(s, j, acc, SubSeq(s, j, e - 1), ParseChars(s, q + 1, TRUE, <<>>))

RECURSIVE ParseElement(_, _, _, _)
RECURSIVE ParseContent(_, _, _, _)
(* the element that opens at i, once its first text t is parsed *)
ElementText(s, i, nodes, node, t) ==
  IF ~t.ok THEN [ok |-> FALSE, pos |-> i, nodes |-> nodes]
  ELSE ParseContent(s, t.pos, Append(nodes, [node EXCEPT !.text = t.text]), Len(nodes) + 1)

(* the element that opens at i, once its attributes a are parsed *)
ElementAttrs(s, i, nodes, node, a) ==
  IF ~a.ok THEN [ok |-> FALSE, pos |-> i, nodes |-> nodes]
  ELSE IF At(s, <<"/", ">">>, a.pos)
  THEN [ok |-> TRUE, pos |-> a.pos + 2, nodes |-> Append(nodes, [node EXCEPT !.attrs = a.attrs])]
  ELSE IF Char(s, a.pos) # ">" THEN [ok |-> FALSE, pos |-> i, nodes |-> nodes]
  ELSE ElementText(s, i, nodes, [node EXCEPT !.attrs = a.attrs],
                   ParseChars(s, a.pos + 1, FALSE, <<>>))

ParseElement(s, i, nodes, parent) ==
  LET e == NameEnd(s, i + 1)
  IN IF Char(s, i) # "<" \/ Char(s, i + 1) \notin NameStartChars
     THEN [ok |-> FALSE, pos |-> i, nodes |-> nodes]
     ELSE ElementAttrs(s, i, nodes,
                       [parent |-> parent, tag |-> SubSeq(s, i + 1, e - 1), attrs |-> <<>>,
                        text |-> <<>>],
                       ParseAttrs(s, e, <<>>))

(* the content of element me from i on, once the character data after a    *)
(* child element is parsed *)
ContentTail(s, i, nodes, children, me, tail) ==
  IF ~tail.ok THEN [ok |-> FALSE, pos |-> i, nodes |-> nodes]
  ELSE ParseContent(s, tail.pos, children, me)

(* the content of element me from i on, once the child at i is parsed *)
ContentChild(s, i, nodes, me, child) ==
  IF ~child.ok THEN [ok |-> FALSE, pos |-> i, nodes |-> nodes]
  ELSE ContentTail(s, i, nodes, child.nodes, me, ParseChars(s, child.pos, FALSE, <<>>))

ParseContent(s, i, nodes, me) ==
  LET close == <<"<", "/">> \o nodes[me].tag
      g == SkipWs(s, i + Len(close))
  IN IF At(s, <<"<", "/">>, i)
     THEN IF At(s, close, i) /\ Char(s, g) = ">"
          THEN [ok |-> TRUE, pos |-> g + 1, nodes |-> nodes]
          ELSE [ok |-> FALSE, pos |-> i, nodes |-> nodes]
     ELSE ContentChild(s, i, nodes, me, ParseElement(s, i, nodes, me))

fromstring(s) ==
  LET r == ParseElement(s, SkipWs(s, 1), <<>>, 0)
  IN IF r.ok /\ SkipWs(s, r.pos) = Len(s) + 1
     THEN [ok |-> TRUE, nodes |-> r.nodes]
     ELSE [ok |-> FALSE, nodes |-> <<>>]

(* ---------------------------------------------------------------------- *)
(* ET.tostring(root, encoding="unicode") (xml_tools.py 94)                 *)
(* ---------------------------------------------------------------------- *)
TextEscapes ==
  ("&" :> <<"&", "a", "m", "p", ";">>) @@ ("<" :> <<"&", "l", "t", ";">>)
    @@ (">" :> <<"&", "g", "t", ";">>)

AttribEscapes == TextEscapes @@ ("\"" :> <<"&", "q", "u", "o", "t", ";">>)

RECURSIVE Escape(_, _)
Escape(s, table) ==
  IF s = <<>> THEN <<>>
  ELSE (IF Head(s) \in DOMAIN table THEN table[Head(s)] ELSE <<Head(s)>>)
         \o Escape(Tail(s), table)

RECURSIVE WriteAttrs(_)
WriteAttrs(attrs) ==
  IF attrs = <<>> THEN <<>>
  ELSE <<" ">> \o Head(attrs).name \o <<"=", "\"">> \o Escape(Head(attrs).value, AttribEscapes)
         \o <<"\"">> \o WriteAttrs(Tail(attrs))

RECURSIVE Write(_, _)
RECURSIVE WriteAll(_, _)
Write(nodes, i) ==
  LET start == <<"<">> \o nodes[i].tag \o WriteAttrs(nodes[i].attrs)
      children == ChildSeq(nodes, i)
  IN IF nodes[i].text = <<>> /\ children = <<>> THEN start \o <<" ", "/", ">">>
     ELSE start \o <<">">> \o Escape(nodes[i].text, TextEscapes) \o WriteAll(nodes, children)
            \o <<"<", "/">> \o nodes[i].tag \o <<">">>

WriteAll(nodes, is) ==
  IF is = <<>> THEN <<>> ELSE Write(nodes, Head(is)) \o WriteAll(nodes, Tail(is))

tostring(nodes) == Write(nodes, 1)

(* ---------------------------------------------------------------------- *)
(* pretty_format_xml (xml_tools.py 100-167)                                *)
(* ---------------------------------------------------------------------- *)
(* the keyword arguments xml.etree.ElementTree.XMLParser takes; a call     *)
(* with any other keyword raises TypeError                                 *)
XMLParserKeywords == {"target", "encoding"}

Indent(level) == [k \in 1..(2 * level) |-> " "]

PyStrip(s) == LStrip(RStrip(s))

RECURSIVE SplitLines(_)
SplitLines(s) ==
  IF \A k \in 1..Len(s) : s[k] # "\n" THEN <<s>>
  ELSE LET c == CHOOSE k \in 1..Len(s) : s[k] = "\n" /\ \A j \in 1..(k - 1) : s[j] # "\n"
       IN <<SubSeq(s, 1, c - 1)>> \o SplitLines(SubSeq(s, c + 1, Len(s)))

(* " ".join([f'{k}="{v}"' ...]) *)
RECURSIVE AttrText(_)
AttrText(attrs) ==
  IF attrs = <<>> THEN <<>>
  ELSE Head(attrs).name \o <<"=", "\"">> \o Head(attrs).value \o <<"\"">>
         \o (IF Len(attrs) > 1 THEN <<" ">> \o AttrText(Tail(attrs)) ELSE <<>>)

(* xml_tools.py 115-151: the lines of one element *)
RECURSIVE format_elem(_, _, _)
RECURSIVE FormatAll(_, _, _)
format_elem(nodes, i, level) ==
  LET elem == nodes[i]
      indent == Indent(level)
      attrs == AttrText(elem.attrs)
      tag_open == indent \o <<"<">> \o elem.tag
                    \o (IF attrs # <<>> THEN <<" ">> \o attrs ELSE <<>>) \o <<">">>
      tag_close == <<"<", "/">> \o elem.tag \o <<">">>
      children == ChildSeq(nodes, i)
      text == PyStrip(elem.text)
      text_lines == SplitLines(text)
  IN IF children # <<>> \/ text # <<>>
     THEN <<tag_open>>
            \o (IF text = <<>> THEN <<>>
                ELSE IF Len(text_lines) > 1
                THEN << <<>> >> \o [k \in 1..Len(text_lines) |-> indent \o <<" ", " ">> \o text_lines[k]]
                       \o << <<>> >>
                ELSE << indent \o <<" ", " ">> \o text >>)
            \o FormatAll(nodes, children, level + 1)
            \o << indent \o tag_close >>
     ELSE << tag_open \o tag_close >>

FormatAll(nodes, is, level) ==
  IF is = <<>> THEN <<>>
  ELSE format_elem(nodes, Head(is), level) \o FormatAll(nodes, Tail(is), level)

(* Line 111 constructs ET.XMLParser(resolve_entities=False); ET is         *)
(* xml.etree.ElementTree (line 3), whose XMLParser has no such keyword:    *)
(* the constructor raises TypeError, which the except clauses of lines 157 *)
(* and 165 (ET.ParseError, and Exception inside that handler) do not       *)
(* catch.  When the document does not parse, minidom, built on the same    *)
(* parser, does not parse it either and the string is returned as it is.   *)
pretty_format_xml(xml_string) ==
  IF "resolve_entities" \notin XMLParserKeywords THEN Raises("TypeError")
  ELSE LET parsed == fromstring(xml_string)
       IN IF parsed.ok THEN Returns(Join(format_elem(parsed.nodes, 1, 0)))
          ELSE Returns(xml_string)

(* ---------------------------------------------------------------------- *)
(* format_xml_response (xml_tools.py 55-97); content_dict is the sequence  *)
(* of its [key, value] items, a value being None or Some(string)           *)
(* ---------------------------------------------------------------------- *)
AgentResponse ==
  << [parent |-> 0, tag |-> <<"a", "g", "e", "n", "t", "-", "r", "e", "s", "p", "o", "n", "s", "e">>,
      attrs |-> <<>>, text |-> <<>>] >>

SubElement(nodes, key, text) ==
  Append(nodes, [parent |-> 1, tag |-> key, attrs |-> <<>>, text |-> text])

Graft(nodes, sub) ==
  nodes \o [k \in 1..Len(sub) |->
              [sub[k] EXCEPT !.parent = IF @ = 0 THEN 1 ELSE @ + Len(nodes)]]

LooksLikeXml(value) ==
  LET stripped == PyStrip(value)
  IN stripped # <<>> /\ Head(stripped) = "<" /\ stripped[Len(stripped)] = ">"

RECURSIVE AddContent(_, _)
AddContent(nodes, items) ==
  IF items = <<>> THEN nodes
  ELSE LET key == Head(items).key
           value == Head(items).value
           element == fromstring(value[1])
       IN IF value = None THEN AddContent(nodes, Tail(items))
          ELSE IF LooksLikeXml(value[1]) /\ element.ok
          THEN AddContent(Graft(nodes, element.nodes), Tail(items))
          ELSE AddContent(SubElement(nodes, key, value[1]), Tail(items))

format_xml_response(content_dict) ==
  pretty_format_xml(tostring(AddContent(AgentResponse, content_dict)))

(* ---------------------------------------------------------------------- *)
(* Inputs of the XML functions                                             *)
(* ---------------------------------------------------------------------- *)
ResponsePieces ==
  { <<"x">>,
    <<"<", "p", ">">>,
    <<"<", "/", "p", ">">>,
    <<"<", "p", " ", "k", "=", "\"", "v", "\"", ">">>,
    <<"<", "p", "l", ">">>,
    <<"<", "/", "p", "l", ">">> }

ResponseTexts ==
  {<<>>} \cup ResponsePieces
    \cup { a \o b : a \in ResponsePieces, b \in ResponsePieces }
    \cup { a \o b \o c : a \in ResponsePieces, b \in ResponsePieces, c \in ResponsePieces }

TagNames == { <<"p">>, <<"p", "l">> }

PlanTag == <<"p", "l", "a", "n">>

XmlStrings ==
  { <<"<", "p", "l", "a", "n", ">", "<", "t", "a", "s", "k", " ", "i", "d", "=", "\"", "t", "1", "\"", "/", ">", "<", "/", "p", "l", "a", "n", ">">>,
    <<"<", "p", "l", "a", "n", ">", "<", "t", "a", "s", "k", " ", "i", "d", "=", "\"", "t", "1", "\"", " ", "d", "e", "s", "c", "r", "i", "p", "t", "i", "o", "n", "=", "\"", "a", " ", "&", "a", "m", "p", ";", " ", "b", "\"", ">", "<", "t", "a", "s", "k", " ", "i", "d", "=", "\"", "t", "2", "\"", "/", ">", "<", "/", "t", "a", "s", "k", ">", "<", "/", "p", "l", "a", "n", ">">>,
    <<"<", "p", "l", "a", "n", ">", "\n", " ", " ", "<", "t", "a", "s", "k", " ", "i", "d", "=", "\"", "t", "1", "\"", " ", "s", "t", "a", "t", "u", "s", "=", "\"", "p", "e", "n", "d", "i", "n", "g", "\"", ">", "n", "o", "t", "e", "<", "/", "t", "a", "s", "k", ">", "\n", "<", "/", "p", "l", "a", "n", ">">>,
    <<" ", "<", "p", "l", "a", "n", "/", ">">>,
    <<"<", "p", "l", "a", "n", ">", "<", "t", "a", "s", "k", " ", "i", "d", "=", "\"", "t", "1", "\"", " ", "d", "e", "s", "c", "r", "i", "p", "t", "i", "o", "n", "=", "\"", "x", "&", "l", "t", ";", "/", "p", "l", "a", "n", "&", "g", "t", ";", "\"", "/", ">", "<", "/", "p", "l", "a", "n", ">">>,
    <<"<", "p", "l", "a", "n", ">", "<", "p", "l", "a", "n", " ", "i", "d", "=", "\"", "p", "2", "\"", "/", ">", "<", "t", "a", "s", "k", " ", "i", "d", "=", "\"", "t", "1", "\"", "/", ">", "<", "/", "p", "l", "a", "n", ">">>,
    <<"<", "p", "l", "a", "n", " ", ">", "<", "t", "a", "s", "k", " ", "i", "d", "=", "\"", "t", "1", "\"", ">", "a", " ", "&", "l", "t", ";", " ", "b", "<", "/", "t", "a", "s", "k", ">", "t", "a", "i", "l", "<", "/", "p", "l", "a", "n", ">">>,
    <<"<", "a", ">", "l", "1", "\n", "l", "2", "<", "/", "a", ">">>,
    <<"<", "r", ">", "<", "c", " ", "k", "=", "\"", "v", "\"", ">", "T", "<", "/", "c", ">", "<", "e", "/", ">", "<", "/", "r", ">">>,
    <<"<", "r", ">", "<", "c", ">", " ", " ", "l", "1", "\n", " ", " ", " ", "l", "2", "\n", "<", "/", "c", ">", "<", "/", "r", ">">>,
    <<"<", "r", ">", "<", "c", ">", "t", "<", "d", "/", ">", "<", "/", "c", ">", "<", "/", "r", ">">>,
    <<"<", "a", ">", "<", "b", ">", "t">>,
    <<"<", "a", " ", "k", "=", "\"", "1", "\"", " ", "k", "=", "\"", "2", "\"", "/", ">">>,
    << >>,
    <<"t", "e", "x", "t">> }

XmlInputs ==
  [kind : {"extract"}, response : ResponseTexts, tag_name : TagNames]
    \cup [kind : {"document"}, xml_string : XmlStrings]

(* ---------------------------------------------------------------------- *)
(* State machine of the XML functions: the arguments are drawn at the      *)
(* start, a step is one call                                               *)
(* ---------------------------------------------------------------------- *)
InitXml ==
  /\ PlanStart({None})
  /\ ChatIdle
  /\ tree = <<>>
  /\ tree0 = <<>>
  /\ fs = NoFs
  /\ fs0 = NoFs
  /\ launched = <<>>
  /\ ret = None
  /\ console = <<>>
  /\ context = None
  /\ act \in { [NoAction EXCEPT !.arg = i] : i \in XmlInputs }
  /\ acts = 0

Called(op) ==
  /\ act.op = "none"
  /\ act' = [act EXCEPT !.op = op]
  /\ acts' = acts + 1
  /\ UNCHANGED <<tree, tree0, fs, fs0, launched, console>>
  /\ UNCHANGED planVars
  /\ UNCHANGED chatVars

(* extract_xml_from_response(response, tag_name) *)
ExtractXmlFromResponse ==
  /\ act.arg.kind = "extract"
  /\ ret' = extract_xml_from_response(act.arg.response, act.arg.tag_name)
  /\ Called("extract_xml_from_response")
  /\ UNCHANGED context

(* agent.extract_xml_from_response(response, tag_name) *)
AgentExtractXmlFromResponse ==
  /\ act.arg.kind = "extract"
  /\ ret' = Agent_extract_xml_from_response(act.arg.response, act.arg.tag_name)
  /\ Called("Agent.extract_xml_from_response")
  /\ UNCHANGED context

(* pretty_format_xml(xml_string), and pretty_format_xml of that *)
PrettyFormatXml ==
  /\ act.arg.kind = "document"
  /\ LET formatted == pretty_format_xml(act.arg.xml_string)
     IN /\ context' = Some(formatted)
        /\ ret' = Then(formatted, pretty_format_xml(formatted.value))
  /\ Called("pretty_format_xml")

(* extract_xml_from_response(format_xml_response({"plan": xml_string}), "plan") *)
FormatAndExtract ==
  /\ act.arg.kind = "document"
  /\ LET formatted == format_xml_response(<< [key |-> PlanTag, value |-> Some(act.arg.xml_string)] >>)
     IN /\ context' = Some(formatted)
        /\ ret' = Then(formatted, Returns(extract_xml_from_response(formatted.value, PlanTag)))
  /\ Called("format_xml_response")

NextXml ==
  \/ ExtractXmlFromResponse
  \/ AgentExtractXmlFromResponse
  \/ PrettyFormatXml
  \/ FormatAndExtract

SpecXml == InitXml /\ [][NextXml]_vars

(* ====================================================================== *)
(* Agent.stream_reasoning (agent/core.py 45-165 and 212-305)               *)
(*                                                                         *)
(* core.py holds two definitions of the class, told apart here by          *)
(* version (1: lines 15-165, 2: lines 191 on); they differ in the error    *)
(* text only.  Fragments and the returned text are sequences of            *)
(* characters, an error text is one lexeme; the message of an exception    *)
(* is a sequence of lexemes.  stream is the frame of the running call:     *)
(* its position, full_response and reasoning_output, what was handed to    *)
(* the callback (shown), the chunks handled so far, and at the end the     *)
(* returned value, how the call ended (cause) and the message of the      *)
(* exception that ended it.                                                *)
(* ====================================================================== *)
MaxChunks == 3

Versions == {1, 2}

(* content.replace('\r', '').replace('\b', '') *)
Clean(content) == SelectSeq(content, LAMBDA c : c # "\r")

LowerWord(w) ==
  IF w = "Rate limit" THEN "rate limit"
  ELSE IF w = "Timeout" THEN "timeout"
  ELSE w

(* keyword in error_msg.lower() *)
InLower(keyword, error_msg) == \E k \in 1..Len(error_msg) : LowerWord(error_msg[k]) = keyword

(* core.py 77-85 and 156-163 (version 1), 237 and 305 (version 2) *)
ErrorResponse(version, error_msg) ==
  IF version = 2 THEN <<"Error: ">> \o error_msg
  ELSE IF InLower("rate limit", error_msg)
  THEN <<"Error: Rate limit exceeded. Please try again later.">>
  ELSE IF InLower("timeout", error_msg)
  THEN <<"Error: Request timed out. The model may be overloaded.">>
  ELSE IF InLower("connection", error_msg)
  THEN <<"Error: Connection failed. Please check your internet connection.">>
  ELSE <<"Error: ">> \o error_msg

(* full_response or error_response *)
Or(a, b) == IF a # <<>> THEN a ELSE b

(* mutant: the error text is returned whatever has been accumulated *)
StreamFailed_ErrorOnly(full_response, error_response) == error_response

(* core.py 165, 305 *)
StreamFailed(full_response, error_response) == Or(full_response, error_response)

Contents == {None, Some(<<"a">>), Some(<<"b", "\r">>), Some(<<"\r">>)}

Reasonings == {None, Some(<<"r">>)}

Chunks == [content : Contents, reasoning : Reasonings]

ErrorMessages ==
  { <<"Rate limit", "reached">>, <<"Timeout", "on", "connection">>, <<"connection", "reset">>,
    <<"boom">> }

Messages == { <<"a">>, <<>> }

InitStream == PlanStart({None}) /\ ActionsIdle /\ ChatIdle

StreamFrame ==
  /\ UNCHANGED planVars
  /\ UNCHANGED actVars
  /\ UNCHANGED session

StreamReturn(value, cause, error_msg) ==
  stream' = [stream EXCEPT !.pc = "returned", !.result = value, !.cause = cause,
                           !.error_msg = error_msg]

(* stream_reasoning(prompt) up to the completion call, streaming or not *)
StreamBegin(version, streaming) ==
  /\ stream.pc = "idle"
  /\ stream' = [pc |-> IF streaming THEN "streaming" ELSE "waiting",
                version |-> version, full_response |-> <<>>, reasoning_output |-> <<>>,
                shown |-> <<>>, handled |-> <<>>, saved |-> None,
                result |-> <<>>, cause |-> "", error_msg |-> <<>>]
  /\ StreamFrame

(* core.py 66-72, 228-234: the answer of the call without streaming *)
CompletionReturns(message) ==
  /\ stream.pc = "waiting"
  /\ StreamReturn(message, "end", <<>>)
  /\ StreamFrame

(* core.py 73-85, 235-237 *)
CompletionFails(error_msg) ==
  /\ stream.pc = "waiting"
  /\ StreamReturn(ErrorResponse(stream.version, error_msg), "error", error_msg)
  /\ StreamFrame

(* core.py 103-134, 255-286: one chunk of the stream *)
StreamChunk(chunk) ==
  /\ stream.pc = "streaming"
  /\ Len(stream.handled) < MaxChunks
  /\ LET content == IF chunk.content = None THEN <<>> ELSE chunk.content[1]
         reasoning == IF chunk.reasoning = None THEN <<>> ELSE chunk.reasoning[1]
         answered == IF content # <<>> THEN << [text |-> Clean(content), is_reasoning |-> FALSE] >>
                     ELSE <<>>
         reasoned == IF reasoning # <<>>
                     THEN << [text |-> Clean(reasoning), is_reasoning |-> TRUE] >>
                     ELSE <<>>
     IN stream' = [stream EXCEPT
                     !.full_response = @ \o Clean(content),
                     !.reasoning_output = @ \o Clean(reasoning),
                     !.shown = @ \o answered \o reasoned,
                     !.handled = Append(@, chunk)]
  /\ StreamFrame

(* core.py 136-146, 288-298: the stream is exhausted *)
StreamEnd ==
  /\ stream.pc = "streaming"
  /\ stream' = [stream EXCEPT
                  !.pc = "returned", !.result = stream.full_response, !.cause = "end",
                  !.saved = IF stream.reasoning_output # <<>> THEN Some(stream.reasoning_output)
                            ELSE None]
  /\ StreamFrame

(* core.py 148-150, 300-302: KeyboardInterrupt inside the try block *)
StreamInterrupt ==
  /\ stream.pc = "streaming"
  /\ StreamReturn(stream.full_response, "interrupt", <<>>)
  /\ StreamFrame

(* core.py 151-165, 303-305: any other exception inside the try block *)
StreamError(error_msg) ==
  /\ stream.pc = "streaming"
  /\ StreamReturn(StreamFailed(stream.full_response, ErrorResponse(stream.version, error_msg)),
                  "error", error_msg)
  /\ StreamFrame

NextStream ==
  \/ \E version \in Versions, streaming \in BOOLEAN : StreamBegin(version, streaming)
  \/ \E message \in Messages : CompletionReturns(message)
  \/ \E error_msg \in ErrorMessages : CompletionFails(error_msg)
  \/ \E chunk \in Chunks : StreamChunk(chunk)
  \/ StreamEnd
  \/ StreamInterrupt
  \/ \E error_msg \in ErrorMessages : StreamError(error_msg)

SpecStream == InitStream /\ [][NextStream]_vars

(* ---------------------------------------------------------------------- *)
(* The chat loop (chat.py): process_chat_response runs the shell commands  *)
(* of a response (359-407), _should_continue_execution (134-153) decides   *)
(* on a further round from the execution records written by               *)
(* _format_execution_context (actions.py 347-359), and                     *)
(* _continue_execution_with_context (155-251) sends the records to the     *)
(* model, whose answer goes through process_chat_response again.           *)
(* ---------------------------------------------------------------------- *)
MaxRounds == 2

(* datetime.datetime.now().isoformat() *)
Timestamp == <<"2", "0", "2", "6", "-", "0", "1", "-", "0", "1", "T", "0", "0", ":", "0", "0", ":", "0", "0">>

(* str(value) of a return code *)
Str(value) == IF value = None THEN <<"N", "o", "n", "e">> ELSE <<AsciiDigits[value[1] + 1]>>

(* str(value).lower() of a truth value *)
StrLower(value) == IF value THEN <<"t", "r", "u", "e">> ELSE <<"f", "a", "l", "s", "e">>

Field(name, value) ==
  <<" ", " ", "<">> \o name \o <<">">> \o value \o <<"<", "/">> \o name \o <<">", "\n">>

CData(value) == CDataStart \o value \o CDataEnd

(* actions.py 347-359 *)
_format_execution_context(ctx) ==
  <<"<", "e", "x", "e", "c", "u", "t", "i", "o", "n", "_", "c", "o", "n",
  "t", "e", "x", "t", ">", "\n">>
    \o Field(<<"c", "o", "m", "m", "a", "n", "d">>, ctx.command)
    \o Field(<<"a", "u", "t", "o", "_", "r", "u", "n">>, StrLower(ctx.auto_run))
    \o Field(<<"u", "s", "e", "r", "_", "a", "p", "p", "r", "o", "v", "e", "d">>, StrLower(ctx.user_approved))
    \o Field(<<"s", "u", "c", "c", "e", "s", "s">>, StrLower(ctx.success))
    \o Field(<<"r", "e", "t", "u", "r", "n", "_", "c", "o", "d", "e">>, Str(ctx.return_code))
    \o Field(<<"t", "i", "m", "e", "s", "t", "a", "m", "p">>, Timestamp)
    \o Field(<<"o", "u", "t", "p", "u", "t">>, CData(ctx.output))
    \o Field(<<"e", "r", "r", "o", "r">>, CData(ctx.error))
    \o <<"<", "/", "e", "x", "e", "c", "u", "t", "i", "o", "n", "_", "c",
       "o", "n", "t", "e", "x", "t", ">">>

UpperLetters == <<"A", "B", "C", "D", "E", "F", "G", "H", "I", "J", "K", "L", "M", "N",
  "O", "P", "Q", "R", "S", "T", "U", "V", "W", "X", "Y", "Z">>

LowerLetters == <<"a", "b", "c", "d", "e", "f", "g", "h", "i", "j", "k", "l", "m", "n",
  "o", "p", "q", "r", "s", "t", "u", "v", "w", "x", "y", "z">>

(* str.lower() *)
LowerText(s) ==
  [k \in 1..Len(s) |->
     IF \E n \in 1..Len(UpperLetters) : UpperLetters[n] = s[k]
     THEN LowerLetters[CHOOSE n \in 1..Len(UpperLetters) : UpperLetters[n] = s[k]]
     ELSE s[k]]

(* elem.findall("./tag"): the children of an element with that tag, in document order *)
FindAllChildren(nodes, parent, tag) ==
  SelectSeq([k \in 1..Len(nodes) |-> k],
            LAMBDA k : nodes[k].parent = parent /\ nodes[k].tag = tag)

(* elem.get(name, default) *)
Attrib(node, name, default) ==
  IF \E n \in 1..Len(node.attrs) : node.attrs[n].name = name
  THEN node.attrs[CHOOSE n \in 1..Len(node.attrs) : node.attrs[n].name = name].value
  ELSE default

(* chat.py 370-372: the command text and the auto_run flag of one command element *)
CommandOf(cmd_elem) ==
  [command  |-> PyStrip(cmd_elem.text),
   auto_run |-> LowerText(Attrib(cmd_elem, <<"s", "a", "f", "e", "_", "t", "o", "_", "a", "u", "t", "o", "r", "u", "n">>, <<"f", "a", "l", "s", "e">>)) = <<"t", "r", "u", "e">>]

(* chat.py 282, 360-363: the command elements of the response; parsed is   *)
(* FALSE when the shell_commands section is not well-formed (406-407)      *)
ShellCommands(resp) ==
  LET shell_commands_xml == Agent_extract_xml_from_response(resp, <<"s", "h", "e", "l", "l", "_", "c", "o", "m", "m", "a", "n", "d", "s">>)
  IN IF shell_commands_xml = None \/ shell_commands_xml[1] = <<>>
     THEN [parsed |-> TRUE, commands |-> <<>>]
     ELSE LET commands_root == fromstring(shell_commands_xml[1])
              commands == FindAllChildren(commands_root.nodes, 1, <<"c", "o", "m", "m", "a", "n", "d">>)
          IN IF ~commands_root.ok THEN [parsed |-> FALSE, commands |-> <<>>]
             ELSE [parsed   |-> TRUE,
                   commands |-> [k \in 1..Len(commands) |->
                                   CommandOf(commands_root.nodes[commands[k]])]]

(* chat.py 139-141: the record parses and its success element reads "true" *)
ReadsSuccess(context_xml) ==
  LET parsed == fromstring(context_xml)
      success_elem == FindAllChildren(parsed.nodes, 1, <<"s", "u", "c", "c", "e", "s", "s">>)
  IN /\ parsed.ok
     /\ success_elem # <<>>
     /\ parsed.nodes[Head(success_elem)].text = <<"t", "r", "u", "e">>

(* chat.py 134-153 *)
_should_continue_execution(execution_contexts, confirm) ==
  IF \E k \in 1..Len(execution_contexts) : ReadsSuccess(execution_contexts[k])
  THEN [ret |-> TRUE, asked |-> FALSE]
  ELSE [ret |-> ~Declined(confirm), asked |-> TRUE]

(* ---------------------------------------------------------------------- *)
(* Inputs of the chat loop                                                 *)
(* ---------------------------------------------------------------------- *)
RespMessage ==
  <<"<", "m", "e", "s", "s", "a", "g", "e", ">", "h", "i", "<", "/", "m",
  "e", "s", "s", "a", "g", "e", ">">>

RespAuto ==
  <<"<", "m", "e", "s", "s", "a", "g", "e", ">", "m", "<", "/", "m", "e",
  "s", "s", "a", "g", "e", ">", "<", "s", "h", "e", "l", "l", "_", "c", "o",
  "m", "m", "a", "n", "d", "s", ">", "<", "c", "o", "m", "m", "a", "n", "d",
  " ", "s", "a", "f", "e", "_", "t", "o", "_", "a", "u", "t", "o", "r", "u",
  "n", "=", "\"", "t", "r", "u", "e", "\"", ">", "l", "s", "<", "/", "c",
  "o", "m", "m", "a", "n", "d", ">", "<", "/", "s", "h", "e", "l", "l", "_",
  "c", "o", "m", "m", "a", "n", "d", "s", ">">>

RespAsk ==
  <<"<", "s", "h", "e", "l", "l", "_", "c", "o", "m", "m", "a", "n", "d",
  "s", ">", "<", "c", "o", "m", "m", "a", "n", "d", ">", "l", "s", "<", "/",
  "c", "o", "m", "m", "a", "n", "d", ">", "<", "/", "s", "h", "e", "l", "l",
  "_", "c", "o", "m", "m", "a", "n", "d", "s", ">">>

RespAnd ==
  <<"<", "s", "h", "e", "l", "l", "_", "c", "o", "m", "m", "a", "n", "d",
  "s", ">", "<", "c", "o", "m", "m", "a", "n", "d", " ", "s", "a", "f", "e",
  "_", "t", "o", "_", "a", "u", "t", "o", "r", "u", "n", "=", "\"", "t",
  "r", "u", "e", "\"", ">", "l", "s", " ", "&", "a", "m", "p", ";", "&",
  "a", "m", "p", ";", " ", "p", "w", "d", "<", "/", "c", "o", "m", "m", "a",
  "n", "d", ">", "<", "/", "s", "h", "e", "l", "l", "_", "c", "o", "m", "m",
  "a", "n", "d", "s", ">">>

RespTwo ==
  <<"<", "s", "h", "e", "l", "l", "_", "c", "o", "m", "m", "a", "n", "d",
  "s", ">", "\n", "<", "c", "o", "m", "m", "a", "n", "d", " ", "s", "a",
  "f", "e", "_", "t", "o", "_", "a", "u", "t", "o", "r", "u", "n", "=",
  "\"", "T", "r", "u", "e", "\"", ">", " ", "l", "s", " ", "<", "/", "c",
  "o", "m", "m", "a", "n", "d", ">", "\n", "<", "c", "o", "m", "m", "a",
  "n", "d", " ", "s", "a", "f", "e", "_", "t", "o", "_", "a", "u", "t", "o",
  "r", "u", "n", "=", "\"", "n", "o", "\"", ">", "s", "o", "r", "t", " ",
  "&", "l", "t", ";", " ", "f", "<", "/", "c", "o", "m", "m", "a", "n", "d",
  ">", "\n", "<", "/", "s", "h", "e", "l", "l", "_", "c", "o", "m", "m",
  "a", "n", "d", "s", ">">>

RespEmpty ==
  <<"<", "s", "h", "e", "l", "l", "_", "c", "o", "m", "m", "a", "n", "d",
  "s", ">", "<", "/", "s", "h", "e", "l", "l", "_", "c", "o", "m", "m", "a",
  "n", "d", "s", ">">>

RespBlank ==
  <<"<", "s", "h", "e", "l", "l", "_", "c", "o", "m", "m", "a", "n", "d",
  "s", ">", "<", "c", "o", "m", "m", "a", "n", "d", "/", ">", "<", "/", "s",
  "h", "e", "l", "l", "_", "c", "o", "m", "m", "a", "n", "d", "s", ">">>

RespBroken ==
  <<"<", "s", "h", "e", "l", "l", "_", "c", "o", "m", "m", "a", "n", "d",
  "s", ">", "<", "c", "o", "m", "m", "a", "n", "d", ">", "l", "s", " ", "&",
  "&", " ", "p", "w", "d", "<", "/", "c", "o", "m", "m", "a", "n", "d", ">",
  "<", "/", "s", "h", "e", "l", "l", "_", "c", "o", "m", "m", "a", "n", "d",
  "s", ">">>

ChatResponses ==
  {RespMessage, RespAuto, RespAsk, RespAnd, RespTwo, RespEmpty, RespBlank,
   RespBroken}

ChatRuns ==
  { Run(<<<<"a">>>>, <<>>, 0),
    Run(<<<<"x", "]", "]", ">", "y">>, <<"b", " ">>>>, <<>>, 0),
    Run(<<>>, <<"e">>, 1) }

(* ---------------------------------------------------------------------- *)
(* State machine of the chat loop.  session.pc is the position in          *)
(* process_chat_response: "await" before a response arrives, "commands"    *)
(* inside the loop of lines 370-380, "deciding" at line 383.               *)
(* session.records are the dictionaries behind execution_contexts.         *)
(* ---------------------------------------------------------------------- *)
ChatStart ==
  [pc |-> "await", round |-> 0, further |-> FALSE, last |-> "none", parsed |-> TRUE,
   commands |-> <<>>, execution_contexts |-> <<>>, records |-> <<>>,
   asked |-> FALSE, confirm |-> "", continued |-> FALSE]

InitChat == PlanStart({None}) /\ ActionsIdle /\ stream = NoStream /\ session = ChatStart

ChatFrame ==
  /\ UNCHANGED planVars
  /\ UNCHANGED actVars
  /\ UNCHANGED stream

(* process_chat_response(agent, console, response, ...) up to line 368;    *)
(* without commands it ends here: line 383 finds no execution contexts     *)
ProcessChatResponse(resp) ==
  /\ session.pc = "await"
  /\ session.round < MaxRounds
  /\ LET r == ShellCommands(resp)
     IN session' = [ChatStart EXCEPT !.pc = IF r.commands = <<>> THEN "await" ELSE "commands",
                                     !.round = session.round + 1,
                                     !.further = session.continued,
                                     !.last = "response",
                                     !.parsed = r.parsed,
                                     !.commands = r.commands]
  /\ ChatFrame

(* chat.py 370-380: one turn of the loop over the command elements *)
RunShellCommand(confirm, run) ==
  /\ session.pc = "commands"
  /\ LET cmd == Head(session.commands)
         r == execute_shell_command(<<>>, cmd.command, cmd.auto_run, confirm, run)
     IN session' = [session EXCEPT !.pc = IF Len(session.commands) = 1 THEN "deciding" ELSE "commands",
                                   !.last = "command",
                                   !.commands = Tail(@),
                                   !.execution_contexts = Append(@, _format_execution_context(r.context)),
                                   !.records = Append(@, r.context)]
  /\ ChatFrame

(* chat.py 383-404: the decision on a further round; when it is taken,     *)
(* _continue_execution_with_context sends the records to the model and the *)
(* answer is the next response                                             *)
ShouldContinueExecution(confirm) ==
  /\ session.pc = "deciding"
  /\ LET r == _should_continue_execution(session.execution_contexts, confirm)
     IN session' = [session EXCEPT !.pc = "await",
                                   !.last = "decision",
                                   !.asked = r.asked,
                                   !.confirm = IF r.asked THEN confirm ELSE "",
                                   !.continued = r.ret]
  /\ ChatFrame

NextChat ==
  \/ \E resp \in ChatResponses : ProcessChatResponse(resp)
  \/ \E confirm \in Answers, run \in ChatRuns : RunShellCommand(confirm, run)
  \/ \E confirm \in Answers : ShouldContinueExecution(confirm)

SpecChat == InitChat /\ [][NextChat]_vars

(* ====================================================================== *)
(* Properties                                                              *)
(* ====================================================================== *)
Doc == plan_tree[1]

(* The stored document is in document order, so the first element with a   *)
(* given id is the one at the least index.                                 *)
FirstWithId(t, id) ==
  IF \E i \in 1..Len(t) : t[i].attrs.id = id
  THEN CHOOSE i \in 1..Len(t) : t[i].attrs.id = id /\ \A j \in 1..(i - 1) : t[j].attrs.id # id
  ELSE 0

Depth(t, i) ==
  LET RECURSIVE D(_)
      D(k) == IF t[k].parent = 0 THEN 1 ELSE 1 + D(t[k].parent)
  IN D(i)

(* The ids a depends_on value lists: the comma-delimited segments, without *)
(* surrounding blanks, that are not empty.                                 *)
Segment(s, a, b) ==
  /\ a <= b + 1
  /\ (a = 1 \/ s[a - 1] = ",")
  /\ (b = Len(s) \/ s[b + 1] = ",")
  /\ \A k \in a..b : s[k] # ","

Unblank(f) ==
  IF \A k \in 1..Len(f) : f[k] = " " THEN <<>>
  ELSE LET lo == CHOOSE k \in 1..Len(f) : f[k] # " " /\ \A j \in 1..(k - 1) : f[j] = " "
           hi == CHOOSE k \in 1..Len(f) : f[k] # " " /\ \A j \in (k + 1)..Len(f) : f[j] = " "
       IN SubSeq(f, lo, hi)

Listed(s) ==
  { f \in { Unblank(SubSeq(s, a, b)) : a \in 1..(Len(s) + 1), b \in 0..Len(s) } :
      f # <<>> /\ \E a \in 1..(Len(s) + 1), b \in 0..Len(s) :
                    Segment(s, a, b) /\ Unblank(SubSeq(s, a, b)) = f }

ResolvesCompleted(t, f) ==
  /\ Len(f) = 1
  /\ FirstWithId(t, f[1]) # 0
  /\ "status" \in DOMAIN t[FirstWithId(t, f[1])].attrs
  /\ t[FirstWithId(t, f[1])].attrs.status = "completed"

DependsOnOf(t, id) ==
  LET e == FirstWithId(t, id)
  IN IF "depends_on" \in DOMAIN t[e].attrs THEN t[e].attrs.depends_on ELSE <<>>

Unmet(t, id) == { f \in Listed(DependsOnOf(t, id)) : ~ResolvesCompleted(t, f) }

Satisfied(t, id) == Unmet(t, id) = {}

StatusAt(pt, id) ==
  LET e == FirstWithId(pt[1], id)
  IN IF "status" \in DOMAIN pt[1][e].attrs THEN pt[1][e].attrs.status ELSE "<none>"

Known(pt, id) == pt # None /\ FirstWithId(pt[1], id) # 0

Executing == lastOp.op = "execute_task"

Started == Executing /\ trace # <<>>

Returned == Executing /\ pc = "idle"

C2_CheckDependenciesExact ==
  (pc = "idle" /\ plan_tree # None) =>
    \A i \in 1..Len(Doc) :
      LET id == Doc[i].attrs.id
          r == check_dependencies(plan_tree, id)
      IN /\ r.met <=> Satisfied(Doc, id)
         /\ { r.missing[k].dep : k \in 1..Len(r.missing) } = Unmet(Doc, id)
         /\ (DependsOnOf(Doc, id) = <<>> => r.met)

C2_Witness ==
  /\ pc = "idle"
  /\ plan_tree # None
  /\ \E i, j, k \in 1..Len(Doc) :
       /\ FirstWithId(Doc, Doc[i].attrs.id) = i
       /\ DependsOnOf(Doc, Doc[i].attrs.id) # <<>>
       /\ check_dependencies(plan_tree, Doc[i].attrs.id).met
       /\ <<Doc[j].attrs.id>> \in Listed(DependsOnOf(Doc, Doc[i].attrs.id))
       /\ FirstWithId(Doc, Doc[j].attrs.id) = j
       /\ Depth(Doc, j) >= 3
       /\ FirstWithId(Doc, Doc[k].attrs.id) = k
       /\ <<"tx">> \in Listed(DependsOnOf(Doc, Doc[k].attrs.id))
       /\ ~check_dependencies(plan_tree, Doc[k].attrs.id).met

(* C3: on a run in which the response carries an actions section, the      *)
(* values execute_task gives the task's (status, progress) and persists    *)
(* are (in-progress,10), (in-progress,30), (in-progress,50),               *)
(* (in-progress,70), in that order; 30 is stored before the model is       *)
(* called and 50 after; the run ends at in-progress/70 and execute_task    *)
(* never sets completed.                                                   *)
ExpectedTrace ==
  << <<"in-progress", <<"1", "0">>>>, <<"in-progress", <<"3", "0">>>>,
     <<"in-progress", <<"5", "0">>>>, <<"in-progress", <<"7", "0">>>> >>

StoredPair ==
  LET e == FirstWithId(Doc, task_id)
  IN <<Doc[e].attrs.status, Doc[e].attrs.progress>>

DecimalDigits == {"0", "1", "2", "3", "4", "5", "6", "7", "8", "9"}

ValidProgress(progress) ==
  /\ progress # None
  /\ progress[1] # <<>>
  /\ \A k \in 1..Len(progress[1]) : progress[1][k] \in DecimalDigits
  /\ IntOf(progress[1]) \in 0..100

C9_ProgressValidated ==
  (lastOp.op = "update_plan" /\ Known(entry, lastOp.id)) =>
    /\ Len(Doc) = Len(entry[1])
    /\ \A i \in 1..Len(Doc) :
         entry[1][i].attrs.id = lastOp.id =>
           /\ Doc[i].attrs.status = lastOp.new_status
           /\ IF ValidProgress(lastOp.progress)
              THEN Doc[i].attrs.progress = lastOp.progress[1]
              ELSE Doc[i].attrs.progress = entry[1][i].attrs.progress

(* C10: update_plan(id, s) sets status s, whatever the status was, on      *)
(* every task whose id is id, at any depth, and changes no task with       *)
(* another id.                                                             *)
C10_EveryMatchUpdated ==
  (lastOp.op = "update_plan" /\ lastOp.progress = None /\ entry # None) =>
    /\ Len(Doc) = Len(entry[1])
    /\ \A i \in 1..Len(Doc) :
         /\ Doc[i].parent = entry[1][i].parent
         /\ Doc[i].attrs.id = entry[1][i].attrs.id
         /\ (Doc[i].attrs.id = lastOp.id => Doc[i].attrs.status = lastOp.new_status)
         /\ (Doc[i].attrs.id # lastOp.id => Doc[i] = entry[1][i])

C10_Witness ==
  /\ lastOp.op = "update_plan"
  /\ lastOp.progress = None
  /\ entry # None
  /\ \E i, j \in 1..Len(Doc) :
       /\ i # j
       /\ Doc[i].attrs.id = lastOp.id
       /\ Doc[j].attrs.id = lastOp.id
       /\ Depth(Doc, i) # Depth(Doc, j)
       /\ entry[1][i].attrs.status # entry[1][j].attrs.status
       /\ Doc[i].attrs.status = lastOp.new_status
       /\ Doc[j].attrs.status = lastOp.new_status
       /\ entry[1][j].attrs.status # lastOp.new_status

C12_UpdateIdempotent ==
  (lastOp.op = "update_plan" /\ lastOp.again) => plan_tree = entry

C12_Witness ==
  /\ lastOp.op = "update_plan"
  /\ lastOp.again
  /\ Known(entry, lastOp.id)
  /\ NotesGiven(lastOp.notes)
  /\ ValidProgress(lastOp.progress)
  /\ StatusAt(plan_tree, lastOp.id) = lastOp.new_status
  /\ "plan" \in result.keys
  /\ plan_tree = entry

(* C13: check_dependencies looks at the direct dependencies only.  It      *)
(* returns on a tree whose depends_on form a cycle (two tasks that depend  *)
(* on each other, a task that depends on itself), and its result is the    *)
(* result on the same tree with the depends_on of every other task         *)
(* emptied: the dependencies of the dependencies do not count.             *)
OwnDepsOnly(t, id) ==
  [i \in 1..Len(t) |->
     IF i = FirstWithId(t, id) \/ "depends_on" \notin DOMAIN t[i].attrs THEN t[i]
     ELSE [t[i] EXCEPT !.attrs.depends_on = <<>>]]

Lists(t, i, j) == <<t[j].attrs.id>> \in Listed(DependsOnOf(t, t[i].attrs.id))

C13_DirectDependenciesOnly ==
  (pc = "idle" /\ plan_tree # None) =>
    \A i \in 1..Len(Doc) :
      LET id == Doc[i].attrs.id
          r == check_dependencies(plan_tree, id)
      IN /\ r.met \in BOOLEAN
         /\ r = check_dependencies(Some(OwnDepsOnly(Doc, id)), id)
         /\ r.met <=> Satisfied(Doc, id)

C13_Witness ==
  /\ Started
  /\ \E i, j, k \in 1..Len(entry[1]) :
       /\ entry[1][i].attrs.id = lastOp.id
       /\ FirstWithId(entry[1], lastOp.id) = i
       /\ i # j
       /\ Lists(entry[1], i, j)
       /\ Lists(entry[1], j, i)
       /\ ~Satisfied(entry[1], entry[1][j].attrs.id)
       /\ Lists(entry[1], k, k)
       /\ ~check_dependencies(entry, entry[1][k].attrs.id).met

(* C14: from a plan tree whose task ids are pairwise distinct, no sequence *)
(* of update_plan, apply_plan_updates and execute_task calls produces two  *)
(* task elements with the same id.                                         *)
UniqueIds(pt) ==
  pt # None => \A i, j \in 1..Len(pt[1]) : pt[1][i].attrs.id = pt[1][j].attrs.id => i = j

UniquePlans == { p \in InitPlans : UniqueIds(p) }

InitUnique == PlanStart(UniquePlans) /\ ActionsIdle /\ ChatIdle

SpecUnique == InitUnique /\ [][Next]_vars

OrphanAddsOnly(pt, patch) ==
  /\ patch.wellformed
  /\ patch.directives # <<>>
  /\ \A k \in 1..Len(patch.directives) :
       /\ patch.directives[k].tag = "add_task"
       /\ ("parent_id" \in DOMAIN patch.directives[k].attrs
             => FirstWithId(pt[1], patch.directives[k].attrs.parent_id) = 0)

RemovesOnly(patch) ==
  /\ patch.wellformed
  /\ Len(patch.directives) = 1
  /\ patch.directives[1].tag = "remove_task"

C16_RemoveDetachesAnywhere ==
  ( /\ lastOp.op = "apply_plan_updates"
    /\ entry # None
    /\ UniqueIds(entry)
    /\ RemovesOnly(lastOp.patch[1]) )
  => LET id == lastOp.patch[1].directives[1].attrs.id
     IN IF FirstWithId(entry[1], id) # 0
        THEN /\ FirstWithId(Doc, id) = 0
             /\ changes = <<[change |-> "Removed task", id |-> id]>>
        ELSE plan_tree = entry /\ changes = <<>>

(* C17: update_dependent_tasks(root, c), c a completed task, sets a task's *)
(* status to ready exactly when the task is pending, lists c in its        *)
(* depends_on and every other dependency it lists resolves to a completed  *)
(* task; it changes no other task and no attribute other than status.      *)
PendingAt(t, i) == "status" \notin DOMAIN t[i].attrs \/ t[i].attrs.status = "pending"

DepsAt(t, i) == IF "depends_on" \in DOMAIN t[i].attrs THEN t[i].attrs.depends_on ELSE <<>>

ShouldBeReady(t, i, c) ==
  /\ PendingAt(t, i)
  /\ <<c>> \in Listed(DepsAt(t, i))
  /\ \A f \in Listed(DepsAt(t, i)) \ {<<c>>} : ResolvesCompleted(t, f)

OnlyStatusReady(before, after) ==
  /\ after.parent = before.parent
  /\ DOMAIN after.attrs = DOMAIN before.attrs \cup {"status"}
  /\ after.attrs.status = "ready"
  /\ \A k \in DOMAIN before.attrs \ {"status"} : after.attrs[k] = before.attrs[k]

C17_ReadyExactlyWhenDepsComplete ==
  (act.op = "update_dependent_tasks" /\ ResolvesCompleted(tree0, <<act.arg>>)) =>
    /\ Len(tree) = Len(tree0)
    /\ \A i \in 1..Len(tree0) :
         IF ShouldBeReady(tree0, i, act.arg)
         THEN OnlyStatusReady(tree0[i], tree[i])
         ELSE tree[i] = tree0[i]

(* C18: a declined action writes nothing and starts no process.            *)
(* execute_action (create_file, modify_file, run_command) and              *)
(* execute_file_edit return False, report a skip and no error, and leave   *)
(* the file system and the started processes as they were;                 *)
(* execute_shell_command asks exactly when auto_run is false, a declined   *)
(* command is not started and its record has user_approved and success     *)
(* false, and with auto_run true the command is started without a question *)
(* and recorded as user_approved.                                          *)
Asked == Len(SelectSeq(console, LAMBDA m : m = "ask"))

ErrorLines ==
  {"Error executing action", "Error: File does not exist", "Error: Missing file path in edit",
   "Error: Missing search or replace elements"}

NothingDone ==
  /\ fs = fs0
  /\ Len(launched) = act.launched0
  /\ ret = Some(FALSE)
  /\ \A k \in 1..Len(console) : console[k] \notin ErrorLines

UserDeclined ==
  \/ Asked >= 1 /\ act.confirm = "n"
  \/ Asked = 2 /\ act.create_file = "n"

C18_DeclinedDoesNothing ==
  /\ (act.op = "execute_action" /\ UserDeclined) =>
        NothingDone /\ console[Len(console)] = "Action skipped"
  /\ (act.op = "execute_file_edit" /\ UserDeclined) =>
        NothingDone /\ console[Len(console)] = "Edit skipped"
  /\ act.op = "execute_shell_command" =>
        /\ Asked = (IF act.auto_run THEN 0 ELSE 1)
        /\ UserDeclined =>
              /\ NothingDone
              /\ context[1].user_approved = FALSE
              /\ context[1].success = FALSE
              /\ context[1].return_code = None
        /\ (act.auto_run \/ act.confirm = "Y") =>
              /\ context[1].user_approved = TRUE
              /\ Len(launched) = act.launched0 + 1
              /\ launched[Len(launched)] = act.arg

C18_Witness ==
  /\ act.op = "execute_action"
  /\ act.arg.type = "create_file"
  /\ act.arg.path = "d/s.py"
  /\ act.confirm = "n"
  /\ fs.files["d/s.py"] = None
  /\ "d" \notin fs.dirs
  /\ ret = Some(FALSE)
  /\ context # None
  /\ context[1].auto_run
  /\ context[1].user_approved
  /\ Len(launched) = 1

(* C19: the output of a shell command's record is the full captured output *)
(* when that has at most 5000 characters, and otherwise the truncation     *)
(* marker followed by exactly its last 5000 characters.                    *)
Ran == act.op \in {"execute_shell_command", "execute_command"} /\ Len(launched) = act.launched0 + 1

Captured == IF act.op = "execute_command" THEN context[1].stdout ELSE context[1].output

FullOutput == Join(RStripAll(act.run.stdout))

C19_OutputTruncation ==
  Ran =>
    IF Len(FullOutput) <= 5000
    THEN Captured = FullOutput
    ELSE /\ Len(Captured) = Len(Marker) + 5000
         /\ SubSeq(Captured, 1, Len(Marker)) = Marker
         /\ \A k \in 1..5000 : Captured[Len(Marker) + k] = FullOutput[Len(FullOutput) - 5000 + k]

C19_Witness ==
  /\ Ran
  /\ act.op = "execute_shell_command"
  /\ Len(FullOutput) = 6000
  /\ Len(Captured) = Len(Marker) + 5000
  /\ Captured[Len(Captured)] = FullOutput[6000]
  /\ Captured[Len(Marker) + 1] = FullOutput[1001]

(* C20: modify_file applies each (original, new) change as one replacement *)
(* of the first occurrence of original in the current content; a later     *)
(* occurrence of original stays as it is.                                  *)
FirstAt(s, sub) ==
  CHOOSE k \in 1..(Len(s) - Len(sub) + 1) :
    /\ SubSeq(s, k, k + Len(sub) - 1) = sub
    /\ \A j \in 1..(k - 1) : SubSeq(s, j, j + Len(sub) - 1) # sub

Occurs(s, sub) == \E k \in 1..(Len(s) - Len(sub) + 1) : SubSeq(s, k, k + Len(sub) - 1) = sub

FirstReplaced(s, sub, new) ==
  SubSeq(s, 1, FirstAt(s, sub) - 1) \o new \o SubSeq(s, FirstAt(s, sub) + Len(sub), Len(s))

RECURSIVE EachFirstReplaced(_, _)
EachFirstReplaced(s, chs) ==
  IF chs = <<>> THEN s
  ELSE IF Occurs(s, Head(chs).original)
       THEN EachFirstReplaced(FirstReplaced(s, Head(chs).original, Head(chs).new), Tail(chs))
       ELSE EachFirstReplaced(s, Tail(chs))

C20_FirstOccurrenceOnly ==
  ( /\ act.op = "execute_action"
    /\ act.arg.type = "modify_file"
    /\ act.confirm = "Y"
    /\ act.arg.path \in Paths
    /\ fs0.files[act.arg.path] # None )
  => fs.files[act.arg.path] = Some(EachFirstReplaced(fs0.files[act.arg.path][1], act.arg.changes))

(* C21: in modify_file a change whose original text is not in the current  *)
(* content is skipped with a warning, and the changes after it are still   *)
(* applied, each to the content the earlier ones left; the file is written *)
(* only when at least one change applied and is otherwise left as it was;  *)
(* a missing file is reported as a failure and is not created.             *)
RECURSIVE Batch(_, _)
Batch(b, chs) ==
  IF chs = <<>> THEN b
  ELSE IF Occurs(b.content, Head(chs).original)
       THEN Batch([b EXCEPT !.content = Replace(@, Head(chs).original, Head(chs).new),
                            !.applied = @ + 1], Tail(chs))
       ELSE Batch([b EXCEPT !.skipped = @ + 1], Tail(chs))

Warnings == Len(SelectSeq(console, LAMBDA m : m = "Warning: Could not find text to replace"))

Modifying ==
  /\ act.op = "execute_action"
  /\ act.arg.type = "modify_file"
  /\ act.confirm = "Y"
  /\ act.arg.path \in Paths

C21_AbsentChangeIsSkipped ==
  Modifying =>
    IF fs0.files[act.arg.path] = None
    THEN /\ fs = fs0
         /\ ret = Some(FALSE)
         /\ console[Len(console)] = "Error: File does not exist"
    ELSE LET b == Batch([content |-> fs0.files[act.arg.path][1], applied |-> 0, skipped |-> 0],
                        act.arg.changes)
         IN /\ Warnings = b.skipped
            /\ IF b.applied > 0
               THEN /\ fs = [fs0 EXCEPT !.files[act.arg.path] = Some(b.content)]
                    /\ ret = Some(TRUE)
               ELSE /\ fs = fs0
                    /\ ret = Some(FALSE)

C21_Witness ==
  /\ Modifying
  /\ act.arg.path = "a.txt"
  /\ act.arg.changes = << Change(<<"x">>, <<"a">>), Change(<<"a">>, <<"b", "a">>) >>
  /\ fs0.files["a.txt"] = Some(<<"a", "b", "a", "b">>)
  /\ fs.files["a.txt"] = Some(<<"b", "a", "b", "b", "a", "b">>)
  /\ Warnings = 1
  /\ ret = Some(TRUE)

(* C22: an accepted file_edit with an empty search appends replace to an   *)
(* existing file, or, once the creation of the file is accepted too,       *)
(* creates a missing file holding exactly replace; with a non-empty search *)
(* it replaces the first occurrence of search only, and when search is not *)
(* in the file it prints a warning, no error, and leaves the file as it    *)
(* was.                                                                    *)
Editing ==
  /\ act.op = "execute_file_edit"
  /\ act.arg.path \in Paths
  /\ act.arg.search # None
  /\ act.arg.replace # None
  /\ act.confirm = "Y"

C22_FileEdit ==
  Editing =>
    LET path == act.arg.path
        search == act.arg.search[1]
        replace == act.arg.replace[1]
        before == fs0.files[path]
    IN IF before = None
       THEN (search = <<>> /\ act.create_file = "Y") =>
               /\ Asked = 2
               /\ fs.files[path] = Some(replace)
               /\ ret = Some(TRUE)
       ELSE IF search = <<>>
       THEN /\ fs = [fs0 EXCEPT !.files[path] = Some(before[1] \o replace)]
            /\ ret = Some(TRUE)
       ELSE IF Occurs(before[1], search)
       THEN /\ fs = [fs0 EXCEPT !.files[path] = Some(FirstReplaced(before[1], search, replace))]
            /\ ret = Some(TRUE)
       ELSE /\ fs = fs0
            /\ ret = Some(FALSE)
            /\ console[Len(console)] = "Warning: Search text not found"
            /\ \A k \in 1..Len(console) : console[k] \notin ErrorLines

C22_Witness ==
  /\ Editing
  /\ act.arg.path = "a.txt"
  /\ act.arg.search = Some(<<"a", "b">>)
  /\ act.arg.replace = Some(<<"b">>)
  /\ fs0.files["a.txt"] = Some(<<"a", "b", "a", "b">>)
  /\ fs.files["a.txt"] = Some(<<"b", "a", "b">>)
  /\ ret = Some(TRUE)

(* C23: is_command_safe answers False for every command that contains a   *)
(* deny-list pattern, whatever the command starts with, and answers True   *)
(* exactly for the commands that contain no deny-list pattern and start    *)
(* with an allow-listed command.                                           *)
Checked == act.op = "is_command_safe"

Denied(command) == \E k \in 1..Len(dangerous_patterns) : Occurs(command, dangerous_patterns[k])

Allowed(command) ==
  \E k \in 1..Len(safe_commands) :
    /\ Len(safe_commands[k]) <= Len(command)
    /\ \A j \in 1..Len(safe_commands[k]) : command[j] = safe_commands[k][j]

C23_DenyListWins ==
  Checked =>
    /\ Denied(act.arg) => ret = Some(FALSE)
    /\ ret = Some(TRUE) <=> (~Denied(act.arg) /\ Allowed(act.arg))

C23_Witness ==
  /\ Checked
  /\ act.arg = <<"l", "s", ";", " ", "r", "m", " ", "-", "r", " ", "x">>
  /\ Allowed(act.arg)
  /\ Denied(act.arg)
  /\ ret = Some(FALSE)

(* C24: extract_xml_from_response(text, tag), as a function of xml_tools   *)
(* and as the method of Agent, returns the text from the first "<tag"      *)
(* through the first "</tag>" at or after it, both included, and returns   *)
(* None when either of the two is missing.                                 *)
Extracting == act.op \in {"extract_xml_from_response", "Agent.extract_xml_from_response"}

OccursAt(s, sub, k) == k + Len(sub) - 1 <= Len(s) /\ SubSeq(s, k, k + Len(sub) - 1) = sub

FirstFrom(s, sub, from) ==
  IF \E k \in from..Len(s) : OccursAt(s, sub, k)
  THEN CHOOSE k \in from..Len(s) :
         OccursAt(s, sub, k) /\ \A j \in from..(k - 1) : ~OccursAt(s, sub, j)
  ELSE 0

Section(text, tag) ==
  LET first == FirstFrom(text, <<"<">> \o tag, 1)
      last == IF first = 0 THEN 0 ELSE FirstFrom(text, <<"<", "/">> \o tag \o <<">">>, first)
  IN IF first = 0 \/ last = 0 THEN None
     ELSE Some(SubSeq(text, first, last + Len(tag) + 2))

C24_FirstSectionOrNone == Extracting => ret = Section(act.arg.response, act.arg.tag_name)

ExtractFunctionExact ==
  act.op = "extract_xml_from_response" => ret = Section(act.arg.response, act.arg.tag_name)

(* C25: for every well-formed plan document x,                             *)
(* extract_xml_from_response(format_xml_response({"plan": x}), "plan") is  *)
(* a document with the elements, nesting, attribute names and attribute    *)
(* values of x.                                                            *)
Structure(nodes) ==
  [k \in 1..Len(nodes) |->
     [parent |-> nodes[k].parent,
      tag    |-> nodes[k].tag,
      attrs  |-> { nodes[k].attrs[n] : n \in 1..Len(nodes[k].attrs) }]]

WellFormedPlan(x) == fromstring(x).ok /\ fromstring(x).nodes[1].tag = PlanTag

RoundTripped == act.op = "format_xml_response" /\ WellFormedPlan(act.arg.xml_string)

C25_PlanRoundTrip ==
  RoundTripped =>
    /\ ret.raised = ""
    /\ ret.value # None
    /\ fromstring(ret.value[1]).ok
    /\ Structure(fromstring(ret.value[1]).nodes) = Structure(fromstring(act.arg.xml_string).nodes)

(* C26: pretty_format_xml(pretty_format_xml(x)) = pretty_format_xml(x) for *)
(* every string x.                                                         *)
C26_PrettyIdempotent ==
  act.op = "pretty_format_xml" =>
    /\ context[1].raised = ""
    /\ ret = context[1]

(* C27: a streaming call that is interrupted by the user, or that fails    *)
(* with an error, returns the answer text accumulated so far; the error    *)
(* text is returned only when nothing had been accumulated; reasoning      *)
(* fragments are never part of the returned text.                          *)
RECURSIVE AnswerText(_)
AnswerText(chunks) ==
  IF chunks = <<>> THEN <<>>
  ELSE (IF Head(chunks).content = None THEN <<>>
        ELSE SelectSeq(Head(chunks).content[1], LAMBDA c : c # "\r"))
         \o AnswerText(Tail(chunks))

StreamStopped == stream.pc = "returned" /\ stream.cause \in {"interrupt", "error"}

IsErrorText(value) ==
  /\ value # <<>>
  /\ value[1] \in {"Error: ", "Error: Rate limit exceeded. Please try again later.",
                   "Error: Request timed out. The model may be overloaded.",
                   "Error: Connection failed. Please check your internet connection."}

C27_PartialTextIsReturned ==
  StreamStopped =>
    LET answer == AnswerText(stream.handled)
    IN /\ answer # <<>> => stream.result = answer
       /\ IsErrorText(stream.result) => (answer = <<>> /\ stream.cause = "error")
       /\ stream.cause = "interrupt" => stream.result = answer
       /\ \A k \in 1..Len(stream.result) : stream.result[k] # "r"

C27_Witness ==
  /\ StreamStopped
  /\ stream.cause = "error"
  /\ Len(stream.handled) = 2
  /\ stream.handled[1] = [content |-> Some(<<"b", "\r">>), reasoning |-> Some(<<"r">>)]
  /\ stream.handled[2] = [content |-> Some(<<"a">>), reasoning |-> None]
  /\ stream.result = <<"b", "a">>

(* ---------------------------------------------------------------------- *)
(* C28: apply_plan_updates works in three passes over the patch, all       *)
(* add_task directives, then all modify_task directives, then all          *)
(* remove_task directives, whatever their order in the patch: the reported *)
(* changes are grouped by pass, and a task the patch adds is modified and  *)
(* removed by the directives of the same patch that name it.               *)
(* ---------------------------------------------------------------------- *)
Pass(change) ==
  CASE change.change = "Added new task" -> "add_task"
    [] change.change \in {"Modified task", "Updated attributes for task"} -> "modify_task"
    [] change.change = "Removed task" -> "remove_task"

Earlier(p, q) ==
  \/ p = q
  \/ p = "add_task"
  \/ q = "remove_task"

Patched ==
  /\ lastOp.op = "apply_plan_updates"
  /\ entry # None
  /\ lastOp.patch[1].wellformed

Directives(tag) ==
  LET ds == WithTag(lastOp.patch[1], tag) IN { ds[k] : k \in DOMAIN ds }

(* the add_task directives of the patch whose parent task exists on entry *)
Grafted ==
  { a \in Directives("add_task") :
      Find(entry[1], Get(a.attrs, "parent_id", "None")) # 0 }

Named(tag, id) ==
  \E d \in Directives(tag) : Get(d.attrs, "id", "None") = id

WaitsFor(t, i, c) == PendingAt(t, i) /\ <<c>> \in Listed(DepsAt(t, i))

MarkedReady(i) == Get(tree[i].attrs, "status", "") = "ready"

C30_UpdateAgreesWithCheck ==
  (act.op = "update_dependent_tasks" /\ ResolvesCompleted(tree0, <<act.arg>>)) =>
    \A i \in 1..Len(tree0) :
      WaitsFor(tree0, i, act.arg) =>
        (MarkedReady(i) <=> check_dependencies(Some(tree), Get(tree0[i].attrs, "id", "None")).met)

(* ---------------------------------------------------------------------- *)
(* C29: once the shell commands of a response have been handled, the chat  *)
(* loop goes into a further round with the model, without a question to    *)
(* the user, whenever one of the commands ran and exited with code 0,      *)
(* whatever its text and output; when none did, it goes on exactly when    *)
(* the user confirms; a response without shell commands starts no further  *)
(* round.                                                                  *)
(* ---------------------------------------------------------------------- *)
RanWithSuccess(record) == record.user_approved /\ record.return_code = Some(0)

C29_ContinuesAfterSuccess ==
  /\ session.last = "decision" =>
       IF \E k \in 1..Len(session.records) : RanWithSuccess(session.records[k])
       THEN session.continued /\ ~session.asked
       ELSE session.asked /\ (session.continued <=> ~Declined(session.confirm))
  /\ (session.last = "response" /\ session.commands = <<>>) =>
       (~session.continued /\ ~session.asked /\ session.pc = "await")

====
